---- MODULE Spec2Model ----
(***************************************************************************)
(* The run lifecycle of FoundryAgent (src/src/agent.py): run() creates a   *)
(* remote run, _poll_run_completion drives it, _handle_tool_calls answers  *)
(* the service's tool requests through the tool registry                   *)
(* (src/src/tools.py), _extract_response reads the reply and               *)
(* AgentMetrics.record_run counts the attempt.  The remote agent service   *)
(* is the environment: it moves the run's status on its own.               *)
(*                                                                         *)
(* One action is one stretch of run() between two suspension points        *)
(* (awaits): the remote call that ends the await returns or raises, and    *)
(* the synchronous code after it runs up to the next await.                *)
(***************************************************************************)
EXTENDS Integers, Sequences, FiniteSets, TLC

(***************************************************************************)
(* Bounds of the model and constants of the program.                       *)
(***************************************************************************)
\* Most tool calls in one required_action batch.
MaxBatch == 2
\* Most batches the service issues for one run.
MaxBatches == 1
\* Most run() calls of the caller.
MaxRuns == 1
\* Largest agent_timeout_seconds tried (the smallest is MinTimeout).
MaxTimeout == 10
\* Most record_run calls made on one AgentMetrics.
MaxRecords == 4
\* Most run() calls in progress at once.
MaxCalls == 2
\* The durations (time.time() differences, in seconds) an attempt may measure,
\* and the usage.total_tokens a run may report.
Durations == {0, 2}
TokenCounts == {0, 5}

\* config.py: agent_timeout_seconds has ge=10.
MinTimeout == 10
\* agent.py: poll_interval = 1  # seconds
poll_interval == 1

(***************************************************************************)
(* RunStatus of the service, and the statuses the poller returns on.       *)
(***************************************************************************)
RunStatus ==
    {"queued", "in_progress", "requires_action", "completed", "failed", "cancelled"}

\* Faulty variant: CANCELLED is missing from the list.
TerminalStatusesNoCancelled == {"completed", "failed"}

\* if run.status in [RunStatus.COMPLETED, RunStatus.FAILED, RunStatus.CANCELLED]
TerminalStatuses == {"completed", "failed", "cancelled"}

NoExc == [type |-> "none", msg |-> ""]

(***************************************************************************)
(* Tool calls the service may ask for.  The arguments are JSON text: a     *)
(* well-formed object the handler accepts, a well-formed object whose      *)
(* hours_per_month is a string (the handler multiplies a float by it and   *)
(* raises TypeError), and text that is not JSON.                           *)
(***************************************************************************)
CallNames == {"calculate_azure_cost", "no_such_tool"}

ArgTexts == {"{tier:standard}", "{hours_per_month:'730'}", "{tier:"}

CallKinds ==
    { [name |-> "calculate_azure_cost", arguments |-> "{tier:standard}"],
      [name |-> "no_such_tool", arguments |-> "{tier:standard}"],
      [name |-> "calculate_azure_cost", arguments |-> "{hours_per_month:'730'}"],
      [name |-> "calculate_azure_cost", arguments |-> "{tier:"] }

\* The batches (sequences of 1..MaxBatch call kinds) the service may issue.
Batches == UNION { [1..n -> CallKinds] : n \in 1..MaxBatch }

\* Batch k of a run carries the invocation identifiers <<k, 1>>, <<k, 2>>, ...
MakeBatch(k, kinds) ==
    [i \in 1..Len(kinds) |->
        [id |-> <<k, i>>, name |-> kinds[i].name, arguments |-> kinds[i].arguments]]

(***************************************************************************)
(* tools.py: the global registry and execute_tool.                         *)
(***************************************************************************)
tool_registry ==
    {"query_knowledge_base", "lookup_customer", "create_support_ticket",
     "calculate_azure_cost"}

\* json.loads(tool_call.function.arguments)
json_loads(text) ==
    CASE text = "{tier:standard}" ->
            [exc |-> NoExc, value |-> [hours_per_month |-> "int"]]
      [] text = "{hours_per_month:'730'}" ->
            [exc |-> NoExc, value |-> [hours_per_month |-> "str"]]
      [] OTHER ->
            [exc |-> [type |-> "JSONDecodeError", msg |-> "Expecting value"],
             value |-> [hours_per_month |-> "none"]]

\* tool(**arguments): the handler registered under name.
tool(name, arguments) ==
    IF arguments.hours_per_month = "str"
    THEN [exc |-> [type |-> "TypeError", msg |-> "can't multiply sequence"],
          value |-> "none"]
    ELSE [exc |-> NoExc, value |-> name]

\* ToolRegistry.execute_tool / execute_tool_call
execute_tool(name, arguments) ==
    IF name \notin tool_registry
    THEN [exc |-> [type |-> "ValueError", msg |-> "Tool not found"], value |-> "none"]
    ELSE tool(name, arguments)

(***************************************************************************)
(* agent.py: _handle_tool_calls.                                           *)
(***************************************************************************)
\* Faulty variant of the except clause: `except ValueError` (JSONDecodeError is a
\* ValueError), so a handler's TypeError is not caught.
ExceptionCaughtValueErrorOnly(exc) == exc.type \in {"ValueError", "JSONDecodeError"}

\* except Exception as e: every exception the loop body raises is caught.
ExceptionCaught(exc) == exc.type \in {"ValueError", "TypeError", "JSONDecodeError"}

\* The try block of the loop body: the exception raised, or the value returned.
TryToolCall(tool_call) ==
    LET parsed == json_loads(tool_call.arguments)
    IN  IF parsed.exc # NoExc
        THEN [exc |-> parsed.exc, value |-> "none"]
        ELSE execute_tool(tool_call.name, parsed.value)

\* Faulty variant of the loop body: the except branch logs the error and appends
\* nothing.
ToolCallStepDropsError(tool_call) ==
    LET r == TryToolCall(tool_call)
    IN  IF r.exc = NoExc
        THEN [escaped |-> NoExc,
              appended |-> << [tool_call_id |-> tool_call.id,
                               output |-> <<"result", r.value>>] >>]
        ELSE [escaped |-> NoExc, appended |-> << >>]

\* Faulty variant of the loop body: the output is appended in the try block and
\* once more after it.
ToolCallStepAppendsAgain(tool_call) ==
    LET r == TryToolCall(tool_call)
        out == [tool_call_id |-> tool_call.id,
                output |-> IF r.exc = NoExc THEN <<"result", r.value>>
                                            ELSE <<"error", r.exc.msg>>]
    IN  [escaped |-> NoExc, appended |-> << out, out >>]

\* One iteration: the tool output appended, or the exception that escapes.
ToolCallStep(tool_call) ==
    LET r == TryToolCall(tool_call)
    IN  IF r.exc = NoExc
        THEN [escaped |-> NoExc,
              appended |-> << [tool_call_id |-> tool_call.id,
                               output |-> <<"result", r.value>>] >>]
        ELSE IF ExceptionCaught(r.exc)
        THEN [escaped |-> NoExc,
              appended |-> << [tool_call_id |-> tool_call.id,
                               output |-> <<"error", r.exc.msg>>] >>]
        ELSE [escaped |-> r.exc, appended |-> << >>]

RECURSIVE ToolLoop(_, _, _)
\* for tool_call in tool_calls: ... , from index i on, with the outputs so far.
ToolLoop(calls, i, outputs) ==
    IF i > Len(calls)
    THEN [escaped |-> NoExc, tool_outputs |-> outputs]
    ELSE LET s == ToolCallStep(calls[i])
         IN  IF s.escaped # NoExc
             THEN [escaped |-> s.escaped, tool_outputs |-> outputs]
             ELSE ToolLoop(calls, i + 1, outputs \o s.appended)

RECURSIVE UntilError(_, _, _)
UntilError(calls, i, outputs) ==
    IF i > Len(calls)
    THEN outputs
    ELSE LET s == ToolCallStep(calls[i])
         IN  IF s.appended[1].output[1] = "error"
             THEN outputs \o s.appended
             ELSE UntilError(calls, i + 1, outputs \o s.appended)

\* Faulty variant of the loop: a `break` in the except branch, so the calls after
\* the first failing one are not resolved.
handle_tool_calls_break(calls) ==
    [escaped |-> NoExc, tool_outputs |-> UntilError(calls, 1, << >>)]

\* The synchronous part of _handle_tool_calls: the list it goes on to submit.
handle_tool_calls(calls) == ToolLoop(calls, 1, << >>)

(***************************************************************************)
(* agent.py: AgentMetrics.  average_response_time is a float in the code;  *)
(* here it is the exact fraction <<numerator, denominator>> in lowest      *)
(* terms.                                                                  *)
(***************************************************************************)
RECURSIVE Gcd(_, _)
Gcd(a, b) == IF b = 0 THEN a ELSE Gcd(b, a % b)

Frac(n, d) == LET g == Gcd(n, d) IN IF g = 0 THEN <<0, 1>> ELSE <<n \div g, d \div g>>

AgentMetrics ==
    [total_runs |-> 0, successful_runs |-> 0, failed_runs |-> 0,
     total_tokens_used |-> 0, average_response_time |-> <<0, 1>>,
     tool_calls_made |-> 0]

\* Faulty variant: the else branch is missing, a failed run is counted in
\* total_runs only.
record_run_failure_uncounted(m, success, duration, tokens, n_tool_calls) ==
    LET n == m.total_runs + 1
        avg == m.average_response_time
    IN  [total_runs |-> n,
         successful_runs |-> IF success THEN m.successful_runs + 1 ELSE m.successful_runs,
         failed_runs |-> m.failed_runs,
         total_tokens_used |-> m.total_tokens_used + tokens,
         tool_calls_made |-> m.tool_calls_made + n_tool_calls,
         average_response_time |->
             Frac(avg[1] * (n - 1) + duration * avg[2], avg[2] * n)]

\* Faulty variant: the old average is weighted with total_runs, not
\* total_runs - 1.
record_run_average_overweighted(m, success, duration, tokens, n_tool_calls) ==
    LET n == m.total_runs + 1
        avg == m.average_response_time
    IN  [total_runs |-> n,
         successful_runs |-> IF success THEN m.successful_runs + 1 ELSE m.successful_runs,
         failed_runs |-> IF success THEN m.failed_runs ELSE m.failed_runs + 1,
         total_tokens_used |-> m.total_tokens_used + tokens,
         tool_calls_made |-> m.tool_calls_made + n_tool_calls,
         average_response_time |->
             Frac(avg[1] * n + duration * avg[2], avg[2] * n)]

\* total_runs += 1; one of successful_runs, failed_runs += 1; the sums; and
\* average_response_time = (average_response_time * (total_runs - 1) + duration)
\*                         / total_runs
record_run(m, success, duration, tokens, n_tool_calls) ==
    LET n == m.total_runs + 1
        avg == m.average_response_time
    IN  [total_runs |-> n,
         successful_runs |-> IF success THEN m.successful_runs + 1 ELSE m.successful_runs,
         failed_runs |-> IF success THEN m.failed_runs ELSE m.failed_runs + 1,
         total_tokens_used |-> m.total_tokens_used + tokens,
         tool_calls_made |-> m.tool_calls_made + n_tool_calls,
         average_response_time |->
             Frac(avg[1] * (n - 1) + duration * avg[2], avg[2] * n)]

Max(a, b) == IF a >= b THEN a ELSE b

\* round(x, 2) of the fraction x = <<n, d>>, in hundredths: the nearest
\* hundredth, the even one when two are equally near.
Round2(x) ==
    LET q == (100 * x[1]) \div x[2]
        r == (100 * x[1]) % x[2]
    IN  IF 2 * r < x[2] THEN q
        ELSE IF 2 * r > x[2] THEN q + 1
        ELSE IF q % 2 = 0 THEN q ELSE q + 1

\* Faulty variant: the rate is taken over the failed runs.
to_dict_rate_over_failures(m) ==
    [total_runs |-> m.total_runs,
     success_rate |-> Frac(m.successful_runs, Max(m.failed_runs, 1)),
     total_tokens |-> m.total_tokens_used,
     avg_response_time_seconds |-> Round2(m.average_response_time),
     tool_calls |-> m.tool_calls_made]

\* AgentMetrics.to_dict; success_rate is a fraction, avg_response_time_seconds is
\* in hundredths of a second.
to_dict(m) ==
    [total_runs |-> m.total_runs,
     success_rate |-> Frac(m.successful_runs, Max(m.total_runs, 1)),
     total_tokens |-> m.total_tokens_used,
     avg_response_time_seconds |-> Round2(m.average_response_time),
     tool_calls |-> m.tool_calls_made]

(***************************************************************************)
(* tools.py: ToolParameter, ToolDefinition and ToolRegistry.  A dict is    *)
(* the sequence of its [key, value] items in insertion order: assigning to *)
(* a key that is present replaces the value where it stands, assigning to  *)
(* a new key appends.                                                      *)
(***************************************************************************)
DictKeys(d) == [i \in DOMAIN d |-> d[i].key]

DictHas(d, k) == \E i \in DOMAIN d : d[i].key = k

\* d.get(k, default)
DictGet(d, k, default) ==
    IF DictHas(d, k) THEN d[CHOOSE i \in DOMAIN d : d[i].key = k].value ELSE default

\* d[k] = v
DictSet(d, k, v) ==
    IF DictHas(d, k)
    THEN [i \in DOMAIN d |-> IF d[i].key = k THEN [key |-> k, value |-> v] ELSE d[i]]
    ELSE Append(d, [key |-> k, value |-> v])

\* Faulty variant: the lookup is d.setdefault(k, default), which adds a missing key.
DictAfterSetdefault(d, k, default) ==
    IF DictHas(d, k) THEN d ELSE DictSet(d, k, default)

\* The dict after d.get(k): as it was.
DictAfterGet(d, k, default) == d

\* A formal parameter as inspect.signature gives it: name, annotation ("empty"
\* when there is none) and whether it has a default.
Formal(name, annotation, has_default) ==
    [name |-> name, annotation |-> annotation, has_default |-> has_default]

\* The functions handed to register.  Two of them have the same __name__; one is
\* written as a method is, with self as its first parameter; one raises in its
\* body.
Handlers ==
    { [id |-> "lookup_customer#1", name |-> "lookup_customer", raises |-> FALSE,
       params |-> << Formal("customer_id", "str", FALSE),
                     Formal("include_history", "bool", TRUE) >>],
      [id |-> "lookup_customer#2", name |-> "lookup_customer", raises |-> TRUE,
       params |-> << Formal("key", "empty", FALSE) >>],
      [id |-> "calculate_azure_cost", name |-> "calculate_azure_cost",
       raises |-> FALSE,
       params |-> << Formal("tier", "empty", FALSE), Formal("rate", "float", FALSE),
                     Formal("hours_per_month", "int", TRUE) >>],
      [id |-> "Tools.create_support_ticket", name |-> "create_support_ticket",
       raises |-> FALSE,
       params |-> << Formal("self", "empty", FALSE), Formal("tags", "list", TRUE) >>] }

\* ToolParameter(name, type, description, required, enum, default).  enum is the
\* list of allowed values, << >> for None and for the empty list (alike falsy);
\* default is a value or "None"; description is a sequence of pieces of text.
ToolParameter(name, type, description, required, enum, default) ==
    [name |-> name, type |-> type, description |-> description,
     required |-> required, enum |-> enum, default |-> default]

\* Faulty variant of the type inference: an unannotated parameter gets "object".
annotation_type_object(annotation) ==
    CASE annotation = "int" -> "integer"
      [] annotation = "float" -> "number"
      [] annotation = "bool" -> "boolean"
      [] annotation = "str" -> "string"
      [] OTHER -> "object"

\* param_type = "string", replaced for the annotations int, float and bool
annotation_type(annotation) ==
    CASE annotation = "int" -> "integer"
      [] annotation = "float" -> "number"
      [] annotation = "bool" -> "boolean"
      [] OTHER -> "string"

RECURSIVE infer_parameters_from(_, _)
\* the loop of _infer_parameters over sig.parameters, from index i on
infer_parameters_from(formals, i) ==
    IF i > Len(formals)
    THEN << >>
    ELSE LET param == formals[i]
         IN  (IF param.name = "self"
              THEN << >>
              ELSE << ToolParameter(param.name, annotation_type(param.annotation),
                                    <<"Parameter", param.name>>,
                                    ~param.has_default, << >>, "None") >>)
             \o infer_parameters_from(formals, i + 1)

\* ToolRegistry._infer_parameters(func)
infer_parameters(func) == infer_parameters_from(func.params, 1)

\* ToolRegistry(): no tools, no schemas
ToolRegistry == [tools |-> << >>, schemas |-> << >>]

\* An Optional argument: None, or a value.
None == << >>

Some(x) == << x >>

\* What dict.get returns for a missing tool and a missing schema (None).
NoTool == [id |-> "None", name |-> "None", raises |-> FALSE, params |-> << >>]

NoSchema == [name |-> "None", description |-> "None", parameters |-> << >>]

\* Faulty variant: the schema is stored only when the parameters were inferred.
register_schema_when_inferred(reg, func, description, parameters) ==
    LET name == func.name
        schema == [name |-> name, description |-> description,
                   parameters |-> IF parameters = None
                                  THEN infer_parameters(func) ELSE parameters[1]]
    IN  [tools |-> DictSet(reg.tools, name, func),
         schemas |-> IF parameters = None
                     THEN DictSet(reg.schemas, name, schema) ELSE reg.schemas]

\* ToolRegistry.register(func, description, parameters): the registry after it
register(reg, func, description, parameters) ==
    LET name == func.name
        schema == [name |-> name, description |-> description,
                   parameters |-> IF parameters = None
                                  THEN infer_parameters(func) ELSE parameters[1]]
    IN  [tools |-> DictSet(reg.tools, name, func),
         schemas |-> DictSet(reg.schemas, name, schema)]

\* Faulty variant: a name that is not registered gets the first tool registered.
get_tool_or_first(reg, name) ==
    IF DictHas(reg.tools, name) \/ reg.tools = << >>
    THEN DictGet(reg.tools, name, NoTool)
    ELSE reg.tools[1].value

\* ToolRegistry.get_tool(name)
get_tool(reg, name) == DictGet(reg.tools, name, NoTool)

\* ToolRegistry.get_schema(name)
get_schema(reg, name) == DictGet(reg.schemas, name, NoSchema)

\* The value of properties[param.name]: type and description, enum when
\* param.enum is truthy, default when param.default is not None.
property_of(param) ==
    << [key |-> "type", value |-> param.type],
       [key |-> "description", value |-> param.description] >>
    \o (IF param.enum # << >>
        THEN << [key |-> "enum", value |-> param.enum] >> ELSE << >>)
    \o (IF param.default # "None"
        THEN << [key |-> "default", value |-> param.default] >> ELSE << >>)

RECURSIVE schema_loop(_, _, _, _)
\* for param in self.parameters, from index i on
schema_loop(parameters, i, properties, required) ==
    IF i > Len(parameters)
    THEN [properties |-> properties, required |-> required]
    ELSE LET param == parameters[i]
         IN  schema_loop(parameters, i + 1,
                         DictSet(properties, param.name, property_of(param)),
                         IF param.required THEN Append(required, param.name)
                                           ELSE required)

RECURSIVE schema_loop_all_required(_, _, _, _)
schema_loop_all_required(parameters, i, properties, required) ==
    IF i > Len(parameters)
    THEN [properties |-> properties, required |-> required]
    ELSE LET param == parameters[i]
         IN  schema_loop_all_required(parameters, i + 1,
                         DictSet(properties, param.name, property_of(param)),
                         Append(required, param.name))

\* Faulty variant: `if param.required` is missing, every name is listed.
to_openapi_schema_all_required(schema) ==
    LET built == schema_loop_all_required(schema.parameters, 1, << >>, << >>)
    IN  [type |-> "function",
         function |-> [name |-> schema.name, description |-> schema.description,
                       parameters |-> [type |-> "object",
                                       properties |-> built.properties,
                                       required |-> built.required]]]

\* ToolDefinition.to_openapi_schema()
to_openapi_schema(schema) ==
    LET built == schema_loop(schema.parameters, 1, << >>, << >>)
    IN  [type |-> "function",
         function |-> [name |-> schema.name, description |-> schema.description,
                       parameters |-> [type |-> "object",
                                       properties |-> built.properties,
                                       required |-> built.required]]]

\* ToolRegistry.get_all_schemas()
get_all_schemas(reg) ==
    [i \in DOMAIN reg.schemas |-> to_openapi_schema(reg.schemas[i].value)]

NoValue == [returned_by |-> "none", kwargs |-> << >>]

\* What the body of func returns when called with kwargs.
handler_return(func, kwargs) == [returned_by |-> func.id, kwargs |-> kwargs]

\* func(**kwargs): TypeError when a keyword is not a parameter of func or a
\* parameter without default gets no value; else what the body does.
Call(func, kwargs) ==
    LET names == {func.params[i].name : i \in DOMAIN func.params}
        needed == {func.params[i].name :
                      i \in {k \in DOMAIN func.params : ~func.params[k].has_default}}
        given == {kwargs[i].key : i \in DOMAIN kwargs}
    IN  IF ~(given \subseteq names /\ needed \subseteq given)
        THEN [exc |-> [type |-> "TypeError", msg |-> "bad arguments"],
              value |-> NoValue]
        ELSE IF func.raises
        THEN [exc |-> [type |-> "RuntimeError", msg |-> "handler failed"],
              value |-> NoValue]
        ELSE [exc |-> NoExc, value |-> handler_return(func, kwargs)]

\* Faulty variant: the tool is called once for the log line and once more for the
\* result.
execute_tool_calls_twice(reg, name, arguments) ==
    LET found == get_tool(reg, name)
    IN  IF found = NoTool
        THEN [exc |-> [type |-> "ValueError", msg |-> "Tool not found"],
              value |-> NoValue, invoked |-> << >>]
        ELSE LET r == Call(found, arguments)
                 call == [func |-> found.id, kwargs |-> arguments]
             IN  [exc |-> r.exc, value |-> r.value, invoked |-> << call, call >>]

\* ToolRegistry.execute_tool(name, arguments) on the registry reg: the exception
\* raised, the value returned and the handler calls made.
registry_execute_tool(reg, name, arguments) ==
    LET found == get_tool(reg, name)
    IN  IF found = NoTool
        THEN [exc |-> [type |-> "ValueError", msg |-> "Tool not found"],
              value |-> NoValue, invoked |-> << >>]
        ELSE LET r == Call(found, arguments)
             IN  [exc |-> r.exc, value |-> r.value,
                  invoked |-> << [func |-> found.id, kwargs |-> arguments] >>]

\* No lookup made yet; a lookup fills the field of its result.
NoLookup == [op |-> "none", name |-> "none", found |-> NoTool, schema |-> NoSchema,
             schemas |-> << >>]

\* A run() call that has not begun.
NoCall == [pc |-> "idle", thread |-> "none", run_id |-> 0, attempted |-> FALSE]

\* No create, create_thread, add_message or cleanup call made yet.
NoLifeOp ==
    [n |-> 0, op |-> "none", remote_ok |-> TRUE, raised |-> FALSE, thread |-> "none"]

\* self._credential = None
NoCredential == [id |-> 0, tested |-> FALSE]

\* No get_client or close call made yet.
NoClientOp ==
    [n |-> 0, op |-> "none", raised |-> FALSE, attempts |-> 0, failed |-> 0,
     returned |-> 0, used |-> NoCredential]

\* No truncate_history call made yet.
NoTruncation == [n |-> 0, max_messages |-> 0, before |-> << >>, after |-> << >>]

\* No calculate_azure_cost call made yet.
NoCostCall ==
    [args |-> <<"none", "none", 0>>,
     result |-> [resource_type |-> "none", tier |-> "none", hourly_rate |-> 0,
                 monthly_hours |-> 0, estimated_monthly_cost |-> 0,
                 currency |-> "none"]]

NoExecution ==
    [name |-> "none", arguments |-> << >>, exc |-> NoExc, value |-> NoValue,
     invoked |-> << >>]

(***************************************************************************)
(* State.                                                                  *)
(***************************************************************************)
VARIABLES
    \* FoundryAgent
    agent,          \* self.agent: "none" or the created agent
    status,         \* self.status, an AgentStatus
    metrics,        \* self.metrics
    timeout,        \* self.config.agent_timeout_seconds
    \* the run() call in progress
    pc,             \* where run() is suspended; "idle" when no call is in progress
    elapsed,        \* elapsed of _poll_run_completion
    run,            \* the run the last get_run returned: status, required_action set
    tool_calls,     \* tool_calls of _handle_tool_calls (run.required_action's batch)
    tool_outputs,   \* tool_outputs of _handle_tool_calls, waiting to be submitted
    result,         \* how the last run() call ended
    \* the remote service
    rstatus,        \* status of the remote run
    rbatch,         \* its pending tool-call batch (<< >> outside requires_action)
    rbatchNo,       \* batches issued for this run
    rgot,           \* the pending batch's outputs have been accepted
    \* observations of the current run() call
    attempt,        \* run() calls that passed the agent check
    fetches,        \* get_run calls made
    unsubmitted,    \* tool loops run minus submit_tool_outputs calls made
    failedCall,     \* the remote call that raised, if one did
    recordCalls,    \* record_run calls made
    raisedRuns,     \* over all attempts: run() calls that ended by raising
    durationSum,    \* over all record_run calls: the sum of the durations passed
    executed,       \* over all attempts: tool calls the tool loop handled
    seen,           \* fetches that returned the batch now pending
    consumed,       \* per request of the pending batch: times the loop handled it
    submitted,      \* per request of the pending batch: times its output was sent
    \* a ToolRegistry and the calls made on it
    registry,       \* its _tools and _schemas, each in insertion order
    firstRegs,      \* per name, in order: the first registration made under it
    registrations,  \* the register calls made: the function, parameters given or not
    execution,      \* the last execute_tool call: its arguments and its outcome
    lookup,         \* the last get_tool, get_schema or get_all_schemas call
    \* several run() calls in progress at once on one agent
    calls,          \* per call: where it is suspended, its thread, its remote run
    remoteRuns,     \* the runs created at the service: thread and status
    \* calculate_azure_cost
    costCall,       \* the last call: its arguments and what it returned
    costPrev,       \* the call before it
    \* the agent's lifecycle: create, create_thread, add_message, run, cleanup
    threads,        \* self.threads: per tracked thread id, its context's messages
    remoteAgent,    \* the agent at the service: "none", "live" or "deleted"
    remoteThreads,  \* the threads at the service: per thread id, its messages
    lifeOp,         \* the last lifecycle call: its number, its name, how it ended
    \* a FoundryClientManager
    client,         \* self._client: 0 for None, else the number of the client
    credential,     \* self._credential: its number (0 for None), token test passed
    made,           \* clients and credentials constructed so far
    clientOp,       \* the last get_client or close call and what it did
    \* a ConversationContext
    messages,       \* self.messages
    truncation      \* the last truncate_history call: messages before, after

agentVars == <<agent, status, metrics, timeout>>
runVars == <<pc, elapsed, run, tool_calls, tool_outputs, result>>
remoteVars == <<rstatus, rbatch, rbatchNo, rgot>>
obsVars ==
    <<attempt, fetches, unsubmitted, failedCall, recordCalls, raisedRuns,
      durationSum, executed, seen, consumed, submitted>>
regVars == <<registry, firstRegs, registrations, execution, lookup>>
concVars == <<calls, remoteRuns>>
costVars == <<costCall, costPrev>>
\* The state of the parts modelled on their own, apart from the registry.
lifeVars == <<threads, remoteAgent, remoteThreads, lifeOp>>
clientVars == <<client, credential, made, clientOp>>
histVars == <<messages, truncation>>
auxVars == <<concVars, costVars, lifeVars, clientVars, histVars>>
vars == <<agentVars, runVars, remoteVars, obsVars, regVars, auxVars>>
\* What the end of a run() call writes, besides pc.
endVars == <<metrics, recordCalls, raisedRuns, durationSum, status, result, failedCall>>

(***************************************************************************)
(* tools.py: calculate_azure_cost.  Money is in hundredths of a dollar:    *)
(* the rates of the table have two decimals, so rate * hours_per_month is  *)
(* a whole number of hundredths and round(monthly_cost, 2) leaves it as    *)
(* it is.                                                                  *)
(***************************************************************************)
\* base_rates.get(resource_type, {}).get(tier, 0.10)
base_rate(resource_type, tier) ==
    CASE resource_type = "vm" /\ tier = "basic" -> 5
      [] resource_type = "vm" /\ tier = "standard" -> 15
      [] resource_type = "vm" /\ tier = "premium" -> 50
      [] resource_type = "storage" /\ tier = "basic" -> 1
      [] resource_type = "storage" /\ tier = "standard" -> 2
      [] resource_type = "storage" /\ tier = "premium" -> 5
      [] OTHER -> 10

\* Faulty variant: the rate of the call before is kept for the same resource
\* type (a cache keyed by resource_type alone).
calculate_azure_cost_cached(resource_type, tier, hours_per_month) ==
    LET rate == IF costCall.result.resource_type = resource_type
                THEN costCall.result.hourly_rate
                ELSE base_rate(resource_type, tier)
    IN  [resource_type |-> resource_type, tier |-> tier, hourly_rate |-> rate,
         monthly_hours |-> hours_per_month,
         estimated_monthly_cost |-> rate * hours_per_month, currency |-> "USD"]

calculate_azure_cost(resource_type, tier, hours_per_month) ==
    LET rate == base_rate(resource_type, tier)
    IN  [resource_type |-> resource_type, tier |-> tier, hourly_rate |-> rate,
         monthly_hours |-> hours_per_month,
         estimated_monthly_cost |-> rate * hours_per_month, currency |-> "USD"]

NoRun == [status |-> "none", required_action |-> FALSE]
\* How a run() call ended: returned or raised, the error raised, and for a call
\* that returned the run's status, the response, and the messages.data that
\* list_messages had given _extract_response.
NoResult ==
    [kind |-> "none", error |-> "none", status |-> "none", response |-> << >>,
     messages |-> << >>]

Init ==
    /\ agent = "none"
    /\ status = "initializing"
    /\ metrics = AgentMetrics
    /\ timeout \in MinTimeout..MaxTimeout
    /\ pc = "idle"
    /\ elapsed = 0
    /\ run = NoRun
    /\ tool_calls = << >>
    /\ tool_outputs = << >>
    /\ result = NoResult
    /\ rstatus = "none"
    /\ rbatch = << >>
    /\ rbatchNo = 0
    /\ rgot = FALSE
    /\ attempt = 0
    /\ fetches = 0
    /\ unsubmitted = 0
    /\ failedCall = "none"
    /\ recordCalls = 0
    /\ raisedRuns = 0
    /\ durationSum = 0
    /\ executed = 0
    /\ seen = 0
    /\ consumed = << >>
    /\ submitted = << >>
    /\ registry = ToolRegistry
    /\ firstRegs = << >>
    /\ registrations = << >>
    /\ execution = NoExecution
    /\ lookup = NoLookup
    /\ calls = [c \in 1..MaxCalls |-> NoCall]
    /\ remoteRuns = << >>
    /\ costCall = NoCostCall
    /\ costPrev = NoCostCall
    /\ threads = << >>
    /\ remoteAgent = "none"
    /\ remoteThreads = << >>
    /\ lifeOp = NoLifeOp
    /\ client = 0
    /\ credential = NoCredential
    /\ made = [clients |-> 0, credentials |-> 0]
    /\ clientOp = NoClientOp
    /\ messages = << >>
    /\ truncation = NoTruncation


(***************************************************************************)
(* agent.py: _extract_response.  data is messages.data of                  *)
(* list_messages(order="desc", limit=1): empty, or the newest message.     *)
(***************************************************************************)
NoResponse == <<"No response generated">>

NewestMessages ==
    { << >>,
      << [role |-> "user", content |-> << [text |-> "hello"] >>] >>,
      << [role |-> "assistant",
          content |-> << [text |-> "a"], [image |-> "png"], [text |-> "b"] >>] >> }

RECURSIVE ContentParts(_, _)
\* for content in message.content: if hasattr(content, 'text'): append its value
ContentParts(content, i) ==
    IF i > Len(content)
    THEN << >>
    ELSE (IF "text" \in DOMAIN content[i] THEN << content[i].text >> ELSE << >>)
         \o ContentParts(content, i + 1)

RECURSIVE JoinNoSeparator(_)
\* Faulty variant: "".join(content_parts)
JoinNoSeparator(parts) ==
    IF Len(parts) <= 1 THEN parts ELSE << parts[1] >> \o JoinNoSeparator(Tail(parts))

RECURSIVE JoinLines(_)
\* "\n".join(content_parts), as the sequence of its pieces
JoinLines(parts) ==
    IF Len(parts) <= 1
    THEN parts
    ELSE << parts[1], "\n" >> \o JoinLines(Tail(parts))

\* Faulty variant: the role of the newest message is not looked at.
extract_response_any_role(data) ==
    IF data # << >>
    THEN JoinLines(ContentParts(data[1].content, 1))
    ELSE NoResponse

\* if messages.data: message = messages.data[0]; if message.role == "assistant":
\* return "\n".join(content_parts); else return "No response generated"
extract_response(data) ==
    IF data # << >> /\ data[1].role = "assistant"
    THEN JoinLines(ContentParts(data[1].content, 1))
    ELSE NoResponse

(***************************************************************************)
(* agent.py: create().                                                     *)
(***************************************************************************)
CreateOk ==
    /\ pc = "idle"
    /\ agent = "none"
    /\ agent' = "created"
    /\ status' = "ready"
    /\ UNCHANGED <<metrics, timeout, runVars, remoteVars, obsVars>>
    /\ UNCHANGED regVars
    /\ UNCHANGED auxVars

CreateFail ==
    /\ pc = "idle"
    /\ agent = "none"
    /\ status' = "failed"
    /\ UNCHANGED <<agent, metrics, timeout, runVars, remoteVars, obsVars>>
    /\ UNCHANGED regVars
    /\ UNCHANGED auxVars

(***************************************************************************)
(* agent.py: run().                                                        *)
(***************************************************************************)
\* if not self.agent: raise RuntimeError(...)
RunNotCreated ==
    /\ pc = "idle"
    /\ agent = "none"
    /\ result' = [kind |-> "raised", error |-> "RuntimeError", status |-> "none",
                  response |-> << >>, messages |-> << >>]
    /\ UNCHANGED <<agentVars, pc, elapsed, run, tool_calls, tool_outputs, remoteVars,
                   obsVars>>
    /\ UNCHANGED regVars
    /\ UNCHANGED auxVars

\* self.status = RUNNING; the client is the one create() cached; create_run is awaited.
RunBegin ==
    /\ pc = "idle"
    /\ agent # "none"
    /\ attempt < MaxRuns
    /\ status' = "running"
    /\ pc' = "create_run"
    /\ elapsed' = 0
    /\ run' = NoRun
    /\ tool_calls' = << >>
    /\ tool_outputs' = << >>
    /\ result' = NoResult
    /\ attempt' = attempt + 1
    /\ fetches' = 0
    /\ unsubmitted' = 0
    /\ failedCall' = "none"
    /\ recordCalls' = 0
    /\ seen' = 0
    /\ consumed' = << >>
    /\ submitted' = << >>
    /\ UNCHANGED <<agent, metrics, timeout, remoteVars, raisedRuns, durationSum,
                   executed>>
    /\ UNCHANGED regVars
    /\ UNCHANGED auxVars

\* Faulty variant of the except block: it sets the status and re-raises without
\* recording the run.
RunRaisesUnrecorded(error, call) ==
    /\ UNCHANGED <<metrics, recordCalls, durationSum>>
    /\ raisedRuns' = raisedRuns + 1
    /\ status' = "failed"
    /\ result' = [kind |-> "raised", error |-> error, status |-> "none",
                  response |-> << >>, messages |-> << >>]
    /\ failedCall' = call
    /\ pc' = "idle"

\* except Exception as e: record_run(success=False, ...); status = FAILED; raise
RunRaises(error, call) ==
    /\ \E duration \in Durations :
            /\ metrics' = record_run(metrics, FALSE, duration, 0, 0)
            /\ durationSum' = durationSum + duration
    /\ recordCalls' = recordCalls + 1
    /\ raisedRuns' = raisedRuns + 1
    /\ status' = "failed"
    /\ result' = [kind |-> "raised", error |-> error, status |-> "none",
                  response |-> << >>, messages |-> << >>]
    /\ failedCall' = call
    /\ pc' = "idle"

\* Faulty variant: while elapsed <= timeout
LoopConditionInclusive(e, t) == e <= t

\* while elapsed < timeout
LoopCondition(e, t) == e < t

\* Faulty variant: on timeout the poller hands the last run it fetched back to
\* run(), which goes on to list the messages.
PollLoopReturnsLastRun(e) ==
    IF LoopCondition(e, timeout)
    THEN /\ pc' = "get_run"
         /\ UNCHANGED endVars
    ELSE /\ pc' = "list_messages"
         /\ UNCHANGED endVars

\* The head of the poll loop with elapsed = e: go on to get_run, or time out.
PollLoop(e) ==
    IF LoopCondition(e, timeout)
    THEN /\ pc' = "get_run"
         /\ UNCHANGED endVars
    ELSE RunRaises("TimeoutError", "none")

\* create_run returns: the service has a new run, queued.
CreateRunOk ==
    /\ pc = "create_run"
    /\ rstatus' = "queued"
    /\ rbatch' = << >>
    /\ rbatchNo' = 0
    /\ rgot' = FALSE
    /\ PollLoop(0)
    /\ UNCHANGED <<agent, timeout, elapsed, run, tool_calls, tool_outputs>>
    /\ UNCHANGED <<attempt, executed, fetches, unsubmitted, seen, consumed, submitted>>
    /\ UNCHANGED regVars
    /\ UNCHANGED auxVars

CreateRunFail ==
    /\ pc = "create_run"
    /\ RunRaises("ServiceError", "create_run")
    /\ UNCHANGED <<agent, timeout, elapsed, run, tool_calls, tool_outputs, remoteVars>>
    /\ UNCHANGED <<attempt, executed, fetches, unsubmitted, seen, consumed, submitted>>
    /\ UNCHANGED regVars
    /\ UNCHANGED auxVars

(***************************************************************************)
(* agent.py: _poll_run_completion and _handle_tool_calls.                  *)
(***************************************************************************)
\* Faulty variant of the loop body: the requires_action branch is missing, so the
\* poller sleeps and polls again without dispatching.
AfterFetchNoDispatch(r) ==
    IF r.status \in {"completed", "failed", "cancelled"} THEN "return" ELSE "sleep"

\* Faulty variant of the loop body: a run that asks for action without naming
\* one is handed back to run() as it is.
AfterFetchReturnsStalled(r) ==
    IF r.status \in TerminalStatuses
    THEN "return"
    ELSE IF r.status = "requires_action"
    THEN IF r.required_action THEN "dispatch" ELSE "return"
    ELSE "sleep"

\* What the loop body does with the run get_run returned.
AfterFetch(r) ==
    IF r.status \in TerminalStatuses
    THEN "return"
    ELSE IF r.status = "requires_action" /\ r.required_action
    THEN "dispatch"
    ELSE "sleep"

\* How many tool outputs of outputs answer the request id.
OutputsFor(outputs, id) ==
    Cardinality({k \in DOMAIN outputs : outputs[k].tool_call_id = id})

\* The run objects get_run may return now: the service's current state of the run.
\* With status requires_action, required_action is the pending batch, or None.
FetchedRuns ==
    IF rstatus = "requires_action"
    THEN { [status |-> rstatus, required_action |-> TRUE, tool_calls |-> rbatch],
           [status |-> rstatus, required_action |-> FALSE, tool_calls |-> << >>] }
    ELSE { [status |-> rstatus, required_action |-> FALSE, tool_calls |-> << >>] }

\* get_run returns; the code runs on to the next await (submit_tool_outputs,
\* sleep, or list_messages after the return to run()).
GetRunOk ==
    /\ pc = "get_run"
    /\ \E r \in FetchedRuns :
        /\ run' = [status |-> r.status, required_action |-> r.required_action]
        /\ fetches' = fetches + 1
        /\ seen' = IF r.required_action THEN seen + 1 ELSE seen
        /\ executed' = IF AfterFetch(r) = "dispatch"
                       THEN executed + Len(handle_tool_calls(r.tool_calls).tool_outputs)
                       ELSE executed
        /\ CASE AfterFetch(r) = "return" ->
                    /\ pc' = "list_messages"
                    /\ UNCHANGED <<endVars, tool_calls, tool_outputs, unsubmitted,
                                   consumed>>
             [] AfterFetch(r) = "dispatch" ->
                    LET d == handle_tool_calls(r.tool_calls)
                    IN  /\ unsubmitted' = unsubmitted + 1
                        /\ tool_calls' = r.tool_calls
                        /\ consumed' =
                              [i \in DOMAIN consumed |->
                                  consumed[i] + OutputsFor(d.tool_outputs, rbatch[i].id)]
                        /\ IF d.escaped = NoExc
                           THEN /\ tool_outputs' = d.tool_outputs
                                /\ pc' = "submit"
                                /\ UNCHANGED endVars
                           ELSE /\ tool_outputs' = << >>
                                /\ RunRaises(d.escaped.type, "none")
             [] OTHER ->
                    /\ pc' = "sleep"
                    /\ UNCHANGED <<endVars, tool_calls, tool_outputs, unsubmitted,
                                   consumed>>
    /\ UNCHANGED <<agent, timeout, elapsed, remoteVars, attempt, submitted>>
    /\ UNCHANGED regVars
    /\ UNCHANGED auxVars

\* Faulty variant: a failed get_run is retried on the next round instead of
\* propagating.
GetRunFailRetried ==
    /\ pc = "get_run"
    /\ fetches' = fetches + 1
    /\ failedCall' = "get_run"
    /\ pc' = "sleep"
    /\ UNCHANGED <<agentVars, elapsed, run, tool_calls, tool_outputs, result, remoteVars>>
    /\ UNCHANGED <<attempt, executed, unsubmitted, recordCalls, raisedRuns, durationSum,
                   seen, consumed,
                   submitted>>
    /\ UNCHANGED regVars
    /\ UNCHANGED auxVars

GetRunFail ==
    /\ pc = "get_run"
    /\ fetches' = fetches + 1
    /\ RunRaises("ServiceError", "get_run")
    /\ UNCHANGED <<agent, timeout, elapsed, run, tool_calls, tool_outputs, remoteVars>>
    /\ UNCHANGED <<attempt, executed, unsubmitted, seen,
                   consumed, submitted>>
    /\ UNCHANGED regVars
    /\ UNCHANGED auxVars

\* The submit_tool_outputs call is made with tool_outputs.
SubmitCall ==
    /\ unsubmitted' = unsubmitted - 1
    /\ submitted' =
          [i \in DOMAIN submitted |->
              submitted[i] + OutputsFor(tool_outputs, rbatch[i].id)]
    /\ tool_calls' = << >>
    /\ tool_outputs' = << >>

\* The service accepts outputs that answer the batch it is waiting on.
Accepts(outputs) ==
    /\ rstatus = "requires_action"
    /\ \A i \in DOMAIN rbatch : OutputsFor(outputs, rbatch[i].id) >= 1

SubmitOk ==
    /\ pc = "submit"
    /\ SubmitCall
    /\ rgot' = (rgot \/ Accepts(tool_outputs))
    /\ pc' = "sleep"
    /\ UNCHANGED <<agentVars, elapsed, run, result, rstatus, rbatch, rbatchNo>>
    /\ UNCHANGED <<attempt, executed, fetches, failedCall, recordCalls, raisedRuns,
                   durationSum, seen,
                   consumed>>
    /\ UNCHANGED regVars
    /\ UNCHANGED auxVars

SubmitFail ==
    /\ pc = "submit"
    /\ SubmitCall
    /\ RunRaises("ServiceError", "submit_tool_outputs")
    /\ UNCHANGED <<agent, timeout, elapsed, run, remoteVars>>
    /\ UNCHANGED <<attempt, executed, fetches, seen,
                   consumed>>
    /\ UNCHANGED regVars
    /\ UNCHANGED auxVars

\* Faulty variant: the poller cancels the remote run before it raises.
timeout_cancels_run(st) ==
    IF st \in {"completed", "failed", "cancelled"} THEN st ELSE "cancelled"

\* raise TimeoutError(...): no request goes to the service, which keeps the run
\* in the status st it has.
timeout_leaves_run(st) == st

\* Faulty variant: the clock stands still while the run waits for tool outputs.
next_elapsed_tools_free(e) ==
    IF run.status = "requires_action" THEN e ELSE e + poll_interval

\* elapsed += poll_interval
next_elapsed(e) == e + poll_interval

\* await asyncio.sleep(poll_interval); elapsed += poll_interval; the loop test.
Sleep ==
    /\ pc = "sleep"
    /\ elapsed' = next_elapsed(elapsed)
    /\ PollLoop(next_elapsed(elapsed))
    /\ rstatus' = IF LoopCondition(next_elapsed(elapsed), timeout)
                  THEN rstatus
                  ELSE timeout_leaves_run(rstatus)
    /\ UNCHANGED <<agent, timeout, run, tool_calls, tool_outputs, rbatch, rbatchNo,
                   rgot>>
    /\ UNCHANGED <<attempt, executed, fetches, unsubmitted, seen, consumed, submitted>>
    /\ UNCHANGED regVars
    /\ UNCHANGED auxVars

(***************************************************************************)
(* agent.py: run() after the poller returned.                              *)
(***************************************************************************)
\* getattr(run, 'usage', {}) and getattr(run, 'required_action', {}): the attribute
\* is missing (the default {} is used), is None (.get raises AttributeError), or is
\* a mapping.  tool_calls is read at the top level of required_action, where the
\* batch is not (it lies under submit_tool_outputs), so the count is 0.
AttrShapes == {"missing", "None", "mapping"}

ListMessagesOk ==
    /\ pc = "list_messages"
    /\ \E data \in NewestMessages, usage \in AttrShapes, required_action \in AttrShapes,
          duration \in Durations, total_tokens \in TokenCounts :
        IF usage = "None" \/ required_action = "None"
        THEN RunRaises("AttributeError", "none")
        ELSE LET tokens_used == IF usage = "mapping" THEN total_tokens ELSE 0
             IN  /\ metrics' = record_run(metrics, TRUE, duration, tokens_used, 0)
                 /\ durationSum' = durationSum + duration
                 /\ recordCalls' = recordCalls + 1
                 /\ status' = "completed"
                 /\ result' = [kind |-> "returned", error |-> "none",
                               status |-> run.status,
                               response |-> extract_response(data),
                               messages |-> data]
                 /\ pc' = "idle"
                 /\ UNCHANGED <<failedCall, raisedRuns>>
    /\ UNCHANGED <<agent, timeout, elapsed, run, tool_calls, tool_outputs, remoteVars>>
    /\ UNCHANGED <<attempt, executed, fetches, unsubmitted, seen, consumed, submitted>>
    /\ UNCHANGED regVars
    /\ UNCHANGED auxVars

ListMessagesFail ==
    /\ pc = "list_messages"
    /\ RunRaises("ServiceError", "list_messages")
    /\ UNCHANGED <<agent, timeout, elapsed, run, tool_calls, tool_outputs, remoteVars>>
    /\ UNCHANGED <<attempt, executed, fetches, unsubmitted, seen, consumed, submitted>>
    /\ UNCHANGED regVars
    /\ UNCHANGED auxVars

(***************************************************************************)
(* The remote service.  It owns the run's status; once run() has ended     *)
(* nothing reads this run again, so its later moves are left out.          *)
(***************************************************************************)
\* The run leaves requires_action: the batch is no longer pending.
BatchGone ==
    /\ rbatch' = << >>
    /\ rgot' = FALSE
    /\ seen' = 0
    /\ consumed' = << >>
    /\ submitted' = << >>

ServiceStarts ==
    /\ pc \notin {"idle", "create_run"}
    /\ rstatus = "queued"
    /\ rstatus' = "in_progress"
    /\ UNCHANGED <<agentVars, runVars, rbatch, rbatchNo, rgot, obsVars>>
    /\ UNCHANGED regVars
    /\ UNCHANGED auxVars

ServiceResumes ==
    /\ pc \notin {"idle", "create_run"}
    /\ rstatus = "requires_action"
    /\ rgot
    /\ rstatus' = "in_progress"
    /\ BatchGone
    /\ UNCHANGED <<agentVars, runVars, rbatchNo>>
    /\ UNCHANGED <<attempt, executed, fetches, unsubmitted, failedCall, recordCalls,
                   raisedRuns, durationSum>>
    /\ UNCHANGED regVars
    /\ UNCHANGED auxVars

ServiceRequiresAction ==
    /\ pc \notin {"idle", "create_run"}
    /\ rstatus = "in_progress"
    /\ rbatchNo < MaxBatches
    /\ \E kinds \in Batches :
        /\ rbatch' = MakeBatch(rbatchNo + 1, kinds)
        /\ consumed' = [i \in 1..Len(kinds) |-> 0]
        /\ submitted' = [i \in 1..Len(kinds) |-> 0]
    /\ rstatus' = "requires_action"
    /\ rbatchNo' = rbatchNo + 1
    /\ rgot' = FALSE
    /\ seen' = 0
    /\ UNCHANGED <<agentVars, runVars>>
    /\ UNCHANGED <<attempt, executed, fetches, unsubmitted, failedCall, recordCalls,
                   raisedRuns, durationSum>>
    /\ UNCHANGED regVars
    /\ UNCHANGED auxVars

ServiceEnds ==
    /\ pc \notin {"idle", "create_run"}
    /\ \/ rstatus = "in_progress" /\ rstatus' = "completed"
       \/ rstatus \in {"queued", "in_progress", "requires_action"}
            /\ rstatus' \in {"failed", "cancelled"}
    /\ BatchGone
    /\ UNCHANGED <<agentVars, runVars, rbatchNo>>
    /\ UNCHANGED <<attempt, executed, fetches, unsubmitted, failedCall, recordCalls,
                   raisedRuns, durationSum>>
    /\ UNCHANGED regVars
    /\ UNCHANGED auxVars

Next ==
    \/ CreateOk
    \/ CreateFail
    \/ RunNotCreated
    \/ RunBegin
    \/ CreateRunOk
    \/ CreateRunFail
    \/ GetRunOk
    \/ GetRunFail
    \/ SubmitOk
    \/ SubmitFail
    \/ Sleep
    \/ ListMessagesOk
    \/ ListMessagesFail
    \/ ServiceStarts
    \/ ServiceResumes
    \/ ServiceRequiresAction
    \/ ServiceEnds

Spec == Init /\ [][Next]_vars

(***************************************************************************)
(* Properties of the dispatcher (_handle_tool_calls).                      *)
(***************************************************************************)
\* The request fails: its arguments are no JSON, its tool is not registered, or
\* the handler raises on them.
RequestFails(c) == c.name \notin tool_registry \/ c.arguments # "{tier:standard}"

\* str(e) of the failure of request c: parsing comes first, then the lookup, then
\* the handler.
FailureMessage(c) ==
    IF c.arguments = "{tier:" THEN "Expecting value"
    ELSE IF c.name \notin tool_registry THEN "Tool not found"
    ELSE "can't multiply sequence"

\* C1: for every batch of N requests handed to the dispatcher, the list it submits
\* holds exactly N results, one per request, each carrying the invocation
\* identifier of its request, whichever requests fail.
DispatchOneResultPerRequest ==
    pc = "submit" =>
        /\ Len(tool_outputs) = Len(tool_calls)
        /\ \A i \in DOMAIN tool_calls : OutputsFor(tool_outputs, tool_calls[i].id) = 1
        /\ \A k \in DOMAIN tool_outputs :
              \E i \in DOMAIN tool_calls : tool_outputs[k].tool_call_id = tool_calls[i].id

\* A batch of two requests, one failing and one succeeding, is about to be submitted.
DispatchMixedBatchWitness ==
    /\ pc = "submit"
    /\ Len(tool_calls) = 2
    /\ \E i, j \in DOMAIN tool_calls :
          RequestFails(tool_calls[i]) /\ ~RequestFails(tool_calls[j])

\* C2: a failing invocation (unknown tool, arguments that do not parse, handler
\* exception) never escapes the dispatch loop: run() never raises a tool's
\* exception, the failing request gets the payload {error: message} under its own
\* identifier, and every other request of the batch still gets its own result.
ToolFailureIsolated ==
    /\ result.error \notin {"ValueError", "TypeError", "JSONDecodeError"}
    /\ pc = "submit" =>
          \A i \in DOMAIN tool_calls :
              \E k \in DOMAIN tool_outputs :
                  /\ tool_outputs[k].tool_call_id = tool_calls[i].id
                  /\ tool_outputs[k].output =
                        IF RequestFails(tool_calls[i])
                        THEN <<"error", FailureMessage(tool_calls[i])>>
                        ELSE <<"result", tool_calls[i].name>>

\* The first request of a batch failed in the handler and the second one was still
\* executed and has its result.
ToolFailureIsolatedWitness ==
    /\ pc = "submit"
    /\ Len(tool_calls) = 2
    /\ tool_calls[1].arguments = "{hours_per_month:'730'}"
    /\ tool_outputs[1].output[1] = "error"
    /\ tool_outputs[2].output[1] = "result"

\* C3: within one dispatch the submit_tool_outputs call is made exactly once, after
\* every request of the batch is resolved and with the full list: a dispatch that
\* has not submitted yet is waiting in the call with an output for every request,
\* and no other state has a dispatch without its submission or a second one.
SubmitOncePerDispatch ==
    /\ unsubmitted \in {0, 1}
    /\ unsubmitted = 1 <=> pc = "submit"
    /\ pc = "submit" =>
          {tool_calls[i].id : i \in DOMAIN tool_calls}
              \subseteq {tool_outputs[k].tool_call_id : k \in DOMAIN tool_outputs}

\* A dispatch of a two-request batch with a failing first request has made its one
\* submission and the poller is back in its loop.
SubmitOncePerDispatchWitness ==
    /\ pc = "sleep"
    /\ run.required_action
    /\ unsubmitted = 0
    /\ submitted = <<1, 1>>
    /\ RequestFails(rbatch[1])

(***************************************************************************)
(* Properties of the poller (_poll_run_completion).                        *)
(***************************************************************************)
\* C4, as stated: over one _poll_run_completion call no invocation identifier is
\* handled by the tool loop, or has its output submitted, more than once, also when
\* consecutive polls find the same batch pending.
RequestConsumedAtMostOnce ==
    \A i \in DOMAIN consumed : consumed[i] <= 1 /\ submitted[i] <= 1

\* C4, amended: a request is consumed once per status fetch that returns it.  While
\* a batch is pending, each of its requests has been handled by the tool loop
\* exactly as often as a fetch returned the batch, and its output has been
\* submitted as often, or once less while the submission of the last dispatch is
\* still to be made.
RequestConsumedOncePerFetch ==
    \A i \in DOMAIN consumed :
        /\ consumed[i] = seen
        /\ submitted[i] <= consumed[i]
        /\ consumed[i] <= submitted[i] + 1

\* Two consecutive fetches returned the same pending batch, and both dispatches
\* are done.
RequestConsumedOncePerFetchWitness ==
    /\ seen = 2
    /\ Len(rbatch) = 2
    /\ consumed = <<2, 2>>
    /\ submitted = <<2, 2>>

\* C5: when the first get_run already returns a terminal status the poller returns
\* at once: after that one fetch there has been no dispatch and no sleep, and the
\* call is in (or past) the response extraction, never back in the poll loop.
TerminalOnFirstFetchReturns ==
    (fetches = 1 /\ run.status \in {"completed", "failed", "cancelled"}) =>
        /\ pc \in {"list_messages", "idle"}
        /\ elapsed = 0
        /\ unsubmitted = 0
        /\ tool_calls = << >>
        /\ tool_outputs = << >>

\* The run was cancelled before the first fetch and run() has returned after it.
TerminalOnFirstFetchWitness ==
    /\ fetches = 1
    /\ run.status = "cancelled"
    /\ pc = "idle"
    /\ result.kind = "returned"

\* C6: the poller makes at most floor(timeout / poll_interval) status fetches; it
\* raises TimeoutError only after exactly that many, none of which was terminal,
\* and it does raise once elapsed has reached the timeout.
TimeoutAfterAllPolls ==
    /\ fetches <= timeout \div poll_interval
    /\ result.error = "TimeoutError" =>
          /\ fetches = timeout \div poll_interval
          /\ run.status \notin {"completed", "failed", "cancelled"}
    /\ elapsed >= timeout => (pc = "idle" /\ result.error = "TimeoutError")

\* run() has raised TimeoutError.
TimeoutWitness ==
    /\ pc = "idle"
    /\ result.kind = "raised"
    /\ result.error = "TimeoutError"

\* C7: the step in which the poller times out changes nothing at the service: the
\* remote run keeps its status and its pending batch (no cancel request is made).
TimeoutLeavesRemoteRun ==
    [][(result'.error = "TimeoutError" /\ result.error # "TimeoutError")
          => UNCHANGED remoteVars]_vars

\* run() has timed out while the service still waits for tool outputs.
TimeoutLeavesRemoteRunWitness ==
    /\ result.error = "TimeoutError"
    /\ rstatus = "requires_action"
    /\ rbatch # << >>

\* C8: a get_run or submit_tool_outputs call that raises ends the run() call in
\* that very step with the error raised, and for the rest of this attempt there is
\* no further fetch, dispatch or submission.
RemoteFailurePropagates ==
    [][/\ failedCall' \in {"get_run", "submit_tool_outputs"} =>
            (pc' = "idle" /\ result'.kind = "raised" /\ result'.error = "ServiceError")
       /\ (failedCall \in {"get_run", "submit_tool_outputs"} /\ attempt' = attempt) =>
            /\ fetches' = fetches
            /\ unsubmitted' = unsubmitted
            /\ seen' = seen
            /\ pc' = "idle"]_vars

\* A submit_tool_outputs call has failed after an earlier round of polling.
RemoteFailureWitness ==
    /\ failedCall = "submit_tool_outputs"
    /\ elapsed >= 1
    /\ pc = "idle"

\* C9: when a fetch returns requires_action with a pending batch the dispatcher
\* runs for that batch in the same step, and the submission is made before the
\* next fetch: either the call is waiting in submit_tool_outputs with one output
\* per request of the batch, or it is back in the poll loop with every fetch of
\* the pending batch answered by a submission, or it has raised.  No fetch is
\* made while a submission is outstanding.
DispatchBeforeNextFetch ==
    /\ pc = "get_run" => (unsubmitted = 0 /\ tool_outputs = << >>)
    /\ run.required_action =>
          \/ /\ pc = "submit"
             /\ unsubmitted = 1
             /\ tool_calls # << >>
             /\ \A i \in DOMAIN tool_calls :
                   OutputsFor(tool_outputs, tool_calls[i].id) = 1
          \/ /\ pc \in {"sleep", "get_run"}
             /\ unsubmitted = 0
             /\ \A i \in DOMAIN submitted : submitted[i] = seen
          \/ /\ pc = "idle"
             /\ result.kind = "raised"

\* After a dispatch and its submission the poller has slept and is about to fetch
\* again.
DispatchBeforeNextFetchWitness ==
    /\ pc = "get_run"
    /\ run.required_action
    /\ seen = 1
    /\ submitted = <<1>>

(***************************************************************************)
(* Properties of run().                                                    *)
(***************************************************************************)
\* C10: every run() call that passes the agent check makes exactly one record_run
\* call, made when the call ends; a call that ends by raising records a failed
\* run, and a failed remote call or a timeout ends the call by raising.
OneRecordPerAttempt ==
    /\ recordCalls = (IF pc = "idle" /\ attempt > 0 THEN 1 ELSE 0)
    /\ metrics.total_runs = (IF pc = "idle" THEN attempt ELSE attempt - 1)
    /\ metrics.failed_runs = raisedRuns
    /\ metrics.successful_runs = metrics.total_runs - raisedRuns
    /\ (failedCall # "none" \/ result.error # "none") =>
          (pc = "idle" /\ result.kind = "raised")
    /\ (result.kind = "raised" /\ result.error # "RuntimeError") => status = "failed"

\* An attempt has ended with a failed response extraction, recorded as one failed
\* run.
OneRecordPerAttemptWitness ==
    /\ pc = "idle"
    /\ failedCall = "list_messages"
    /\ recordCalls = 1
    /\ metrics.failed_runs = 1

(***************************************************************************)
(* AgentMetrics on its own: record_run called with any arguments, up to    *)
(* MaxRecords times.  The rest of the state stays as constructed.          *)
(***************************************************************************)
RecordedDurations == {0, 2, 4, 6}

ToolCallCounts == {0, 1}

RecordRun ==
    /\ metrics.total_runs < MaxRecords
    /\ \E success \in BOOLEAN, duration \in RecordedDurations,
          tokens \in TokenCounts, n_tool_calls \in ToolCallCounts :
        /\ metrics' = record_run(metrics, success, duration, tokens, n_tool_calls)
        /\ durationSum' = durationSum + duration
    /\ recordCalls' = recordCalls + 1
    /\ UNCHANGED <<agent, status, timeout, runVars, remoteVars>>
    /\ UNCHANGED <<attempt, fetches, unsubmitted, failedCall, raisedRuns, executed,
                   seen, consumed, submitted>>
    /\ UNCHANGED regVars
    /\ UNCHANGED auxVars

MetricsNext == RecordRun

MetricsSpec == Init /\ [][MetricsNext]_vars

(***************************************************************************)
(* Properties of AgentMetrics.                                             *)
(***************************************************************************)
\* C11: every record_run call increments total_runs by one and exactly one of
\* successful_runs and failed_runs by one, so total_runs is always
\* successful_runs + failed_runs.
RecordRunCountsOnce ==
    /\ [](metrics.total_runs = metrics.successful_runs + metrics.failed_runs)
    /\ [][metrics' # metrics =>
            /\ metrics'.total_runs = metrics.total_runs + 1
            /\ \/ /\ metrics'.successful_runs = metrics.successful_runs + 1
                  /\ metrics'.failed_runs = metrics.failed_runs
               \/ /\ metrics'.successful_runs = metrics.successful_runs
                  /\ metrics'.failed_runs = metrics.failed_runs + 1]_vars

\* Successful and failed runs have both been recorded.
RecordRunCountsOnceWitness ==
    /\ recordCalls = 4
    /\ metrics.total_runs = 4
    /\ metrics.successful_runs = 3
    /\ metrics.failed_runs = 1

\* C12: after any sequence of record_run calls average_response_time is the
\* arithmetic mean of all the durations recorded, those of failed runs included
\* (in exact arithmetic: the float rounding of the code is not modelled).
AverageIsMeanOfDurations ==
    /\ metrics.total_runs = 0 => metrics.average_response_time = <<0, 1>>
    /\ metrics.total_runs > 0 =>
          LET avg == metrics.average_response_time
          IN  /\ avg[2] > 0
              /\ avg[1] * metrics.total_runs = durationSum * avg[2]
              /\ avg = Frac(durationSum, metrics.total_runs)

\* Three runs with durations summing to 12 (as 2, 4, 6 do), one of them failed:
\* the average is 4.
AverageIsMeanWitness ==
    /\ metrics.total_runs = 3
    /\ metrics.failed_runs = 1
    /\ durationSum = 12
    /\ metrics.average_response_time = <<4, 1>>

\* C13: the success rate of the snapshot is successful_runs / max(total_runs, 1):
\* 0 on fresh metrics, always between 0 and 1.
SuccessRateOfSnapshot ==
    LET rate == to_dict(metrics).success_rate
    IN  /\ rate[2] > 0
        /\ rate[1] * Max(metrics.total_runs, 1) = metrics.successful_runs * rate[2]
        /\ 0 <= rate[1] /\ rate[1] <= rate[2]
        /\ metrics.total_runs = 0 => rate = <<0, 1>>

\* Three successful runs and a failed one: the rate is 3/4.
SuccessRateWitness ==
    /\ metrics.successful_runs = 3
    /\ metrics.failed_runs = 1
    /\ to_dict(metrics).success_rate = <<3, 4>>

(***************************************************************************)
(* Properties of the metrics that run() records.                           *)
(***************************************************************************)
\* C14: whenever no run() call is in progress, tool_calls_made is the number of
\* tool invocations the dispatcher has executed during the runs so far.
ToolCallsMadeCountsExecuted ==
    pc = "idle" => metrics.tool_calls_made = executed

(***************************************************************************)
(* A ToolRegistry on its own: register and execute_tool called with any    *)
(* arguments.  The rest of the state stays as constructed.                 *)
(***************************************************************************)
\* Most register calls made on the registry.
MaxRegistrations == 2

\* parameters of register: None, or a list of ToolParameter.
ParameterLists ==
    { None,
      Some(<< ToolParameter("query", "string", <<"The search query">>, TRUE, << >>,
                            "None"),
              ToolParameter("max_results", "integer", <<"Maximum number">>, FALSE, << >>,
                            "5") >>),
      Some(<< ToolParameter("resource_type", "string", <<"Type of resource">>, TRUE,
                            <<"vm", "storage">>, "None") >>) }

\* name of execute_tool
ToolNames == {"lookup_customer", "calculate_azure_cost", "no_such_tool"}

\* arguments of execute_tool: the dict json.loads returned
ArgumentDicts ==
    { << >>,
      << [key |-> "customer_id", value |-> "c-1"] >>,
      << [key |-> "key", value |-> "c-1"] >>,
      << [key |-> "tier", value |-> "standard"], [key |-> "rate", value |-> "0.15"] >>,
      << [key |-> "customer_id", value |-> "c-1"], [key |-> "tier", value |-> "x"] >> }

Register ==
    /\ Len(registrations) < MaxRegistrations
    /\ \E func \in Handlers, parameters \in ParameterLists :
        /\ registry' = register(registry, func, "A tool", parameters)
        /\ registrations' =
              Append(registrations, [func |-> func, inferred |-> parameters = None])
        /\ firstRegs' =
              IF \E i \in DOMAIN firstRegs : firstRegs[i].name = func.name
              THEN firstRegs
              ELSE Append(firstRegs,
                          [name |-> func.name, func |-> func,
                           schema |-> get_schema(register(ToolRegistry, func, "A tool",
                                                          parameters), func.name)])
    /\ UNCHANGED <<execution, lookup, agentVars, runVars, remoteVars, obsVars>>
    /\ UNCHANGED auxVars

ExecuteTool ==
    /\ \E name \in ToolNames, arguments \in ArgumentDicts :
        LET r == registry_execute_tool(registry, name, arguments)
        IN  /\ execution' = [name |-> name, arguments |-> arguments, exc |-> r.exc,
                          value |-> r.value, invoked |-> r.invoked]
           /\ registry' = [tools |-> DictAfterGet(registry.tools, name, NoTool),
                           schemas |-> registry.schemas]
    /\ UNCHANGED <<firstRegs, registrations, lookup>>
    /\ UNCHANGED <<agentVars, runVars, remoteVars, obsVars>>
    /\ UNCHANGED auxVars

\* registry.get_tool(name)
GetTool ==
    /\ \E name \in ToolNames :
        /\ lookup' = [op |-> "get_tool", name |-> name, found |-> get_tool(registry, name),
                      schema |-> NoSchema, schemas |-> << >>]
        /\ registry' = [tools |-> DictAfterGet(registry.tools, name, NoTool),
                        schemas |-> registry.schemas]
    /\ UNCHANGED <<firstRegs, registrations, execution>>
    /\ UNCHANGED <<agentVars, runVars, remoteVars, obsVars>>
    /\ UNCHANGED auxVars

\* registry.get_schema(name)
GetSchema ==
    /\ \E name \in ToolNames :
        /\ lookup' = [op |-> "get_schema", name |-> name, found |-> NoTool,
                      schema |-> get_schema(registry, name), schemas |-> << >>]
        /\ registry' = [tools |-> registry.tools,
                        schemas |-> DictAfterGet(registry.schemas, name, NoSchema)]
    /\ UNCHANGED <<firstRegs, registrations, execution>>
    /\ UNCHANGED <<agentVars, runVars, remoteVars, obsVars>>
    /\ UNCHANGED auxVars

\* registry.get_all_schemas()
GetAllSchemas ==
    /\ lookup' = [op |-> "get_all_schemas", name |-> "none", found |-> NoTool,
                  schema |-> NoSchema, schemas |-> get_all_schemas(registry)]
    /\ UNCHANGED <<registry, firstRegs, registrations, execution>>
    /\ UNCHANGED <<agentVars, runVars, remoteVars, obsVars>>
    /\ UNCHANGED auxVars

RegistryNext ==
    \/ Register
    \/ ExecuteTool

RegistrySpec == Init /\ [][RegistryNext]_vars

(***************************************************************************)
(* Properties of the ToolRegistry.                                         *)
(***************************************************************************)
\* The arguments kwargs are valid for func: every keyword is a parameter of func
\* and every parameter without default gets a value.
ValidArguments(func, kwargs) ==
    /\ \A i \in DOMAIN kwargs : \E k \in DOMAIN func.params :
          func.params[k].name = kwargs[i].key
    /\ \A k \in DOMAIN func.params :
          func.params[k].has_default \/
          \E i \in DOMAIN kwargs : kwargs[i].key = func.params[k].name

\* C15: an execute_tool call with a registered name and valid arguments calls the
\* function registered under the name exactly once, with the arguments as keyword
\* arguments, and returns what that call returned (or raises what it raised).
ExecuteReturnsHandlerValue ==
    [][LET name == execution'.name
           func == DictGet(registry.tools, name, NoTool)
           kwargs == execution'.arguments
       IN  (execution' # execution /\ DictHas(registry.tools, name)
              /\ ValidArguments(func, kwargs)) =>
             /\ execution'.invoked = << [func |-> func.id, kwargs |-> kwargs] >>
             /\ ~func.raises =>
                   /\ execution'.exc = NoExc
                   /\ execution'.value = handler_return(func, kwargs)
             /\ func.raises =>
                   /\ execution'.exc.type = "RuntimeError"
                   /\ execution'.value = NoValue]_vars

\* lookup_customer was registered twice; the call went to the function registered
\* last and returned its value.
ExecuteReturnsHandlerValueWitness ==
    /\ Len(registrations) = 2
    /\ Len(registry.tools) = 1
    /\ execution.name = "lookup_customer"
    /\ execution.exc = NoExc
    /\ execution.value.returned_by = "lookup_customer#1"
    /\ Len(execution.invoked) = 1

\* C16: an execute_tool call with a name that is not registered raises the
\* tool-not-found error (ValueError "Tool not found"), calls no function and
\* leaves the registry as it was.
ExecuteUnknownToolFails ==
    [][(execution' # execution /\ ~DictHas(registry.tools, execution'.name)) =>
          /\ execution'.exc = [type |-> "ValueError", msg |-> "Tool not found"]
          /\ execution'.invoked = << >>
          /\ execution'.value = NoValue
          /\ registry' = registry]_vars

\* A name that is not registered was asked of a registry that holds tools.
ExecuteUnknownToolWitness ==
    /\ Len(registry.tools) = 2
    /\ execution.name = "no_such_tool"
    /\ execution.exc.type = "ValueError"
    /\ execution.invoked = << >>

\* C17: the function and the ToolDefinition stored under a name are always those
\* of the first register call made for that name.
FirstRegistrationKept ==
    \A i \in DOMAIN firstRegs :
        /\ get_tool(registry, firstRegs[i].name) = firstRegs[i].func
        /\ get_schema(registry, firstRegs[i].name) = firstRegs[i].schema

\* The names of the parameters, and of those that are required, in order.
RECURSIVE NamesOf(_, _, _)
NamesOf(parameters, i, required_only) ==
    IF i > Len(parameters)
    THEN << >>
    ELSE (IF required_only /\ ~parameters[i].required
          THEN << >> ELSE << parameters[i].name >>)
         \o NamesOf(parameters, i + 1, required_only)

\* C18: get_all_schemas returns one entry per registered name, in the order in
\* which the names were first registered; the properties of an entry have one key
\* per declared parameter, and its required list is the names of the parameters
\* declared required, in declaration order.
AllSchemasInRegistrationOrder ==
    LET out == get_all_schemas(registry)
    IN  /\ Len(out) = Len(firstRegs)
        /\ \A i \in DOMAIN out :
              LET declared == get_schema(registry, firstRegs[i].name).parameters
                  fn == out[i]["function"]
              IN  /\ out[i].type = "function"
                  /\ fn.name = firstRegs[i].name
                  /\ fn.parameters.type = "object"
                  /\ DictKeys(fn.parameters.properties) = NamesOf(declared, 1, FALSE)
                  /\ fn.parameters.required = NamesOf(declared, 1, TRUE)
                  /\ \A k \in DOMAIN declared :
                        DictGet(DictGet(fn.parameters.properties, declared[k].name,
                                        << >>), "type", "None") = declared[k].type

\* Two tools are registered; the second has an optional parameter.
AllSchemasWitness ==
    /\ Len(registry.schemas) = 2
    /\ registry.schemas[1].key = "calculate_azure_cost"
    /\ get_all_schemas(registry)[2]["function"].parameters.required = <<"query">>
    /\ Len(get_all_schemas(registry)[2]["function"].parameters.properties) = 2

\* The parameters _infer_parameters is to give for the formal parameters formals,
\* those named self left out when skip_self.
RECURSIVE InferredFor(_, _, _)
InferredFor(formals, i, skip_self) ==
    IF i > Len(formals)
    THEN << >>
    ELSE (IF skip_self /\ formals[i].name = "self"
          THEN << >>
          ELSE << [name |-> formals[i].name,
                   string |-> formals[i].annotation \notin {"int", "float", "bool"},
                   required |-> ~formals[i].has_default] >>)
         \o InferredFor(formals, i + 1, skip_self)

\* What the parameters stored by the last register call say: name, whether the
\* type is "string", and the required flag.
LastRegisteredParameters ==
    LET last == registrations[Len(registrations)]
        stored == get_schema(registry, last.func.name).parameters
    IN  [i \in DOMAIN stored |->
            [name |-> stored[i].name, string |-> stored[i].type = "string",
             required |-> stored[i].required]]

\* C19, as stated: after a register call without parameters the stored
\* ToolDefinition has one parameter per formal parameter of the function, in
\* order, of type "string" when the parameter has no annotation, and required
\* exactly when the parameter has no default.
InferredOnePerFormal ==
    (registrations # << >> /\ registrations[Len(registrations)].inferred) =>
        LastRegisteredParameters =
            InferredFor(registrations[Len(registrations)].func.params, 1, FALSE)

\* C19, amended: the same, for the formal parameters other than one named self,
\* which _infer_parameters leaves out; the type is "string" for every annotation
\* other than int, float and bool.
InferredOnePerFormalButSelf ==
    (registrations # << >> /\ registrations[Len(registrations)].inferred) =>
        LastRegisteredParameters =
            InferredFor(registrations[Len(registrations)].func.params, 1, TRUE)

\* The function written as a method was registered without parameters: the
\* stored ToolDefinition has the parameter tags, optional, and no self.
InferredButSelfWitness ==
    /\ registrations # << >>
    /\ registrations[Len(registrations)].inferred
    /\ registrations[Len(registrations)].func.name = "create_support_ticket"
    /\ LastRegisteredParameters =
          << [name |-> "tags", string |-> TRUE, required |-> FALSE] >>

(***************************************************************************)
(* Properties of _extract_response.                                        *)
(***************************************************************************)
\* C20: a run() call whose list_messages gave no message, or a newest message
\* whose role is not "assistant", returns with the response "No response
\* generated"; no error is raised for it.
NoAssistantMessageGivesSentinel ==
    (result.kind = "returned"
       /\ (result.messages = << >> \/ result.messages[1].role # "assistant")) =>
        /\ result.response = NoResponse
        /\ result.error = "none"
        /\ pc = "idle"

\* The newest message of the thread was the user's: run() returned the sentinel.
NoAssistantMessageWitness ==
    /\ result.kind = "returned"
    /\ result.messages # << >>
    /\ result.messages[1].role = "user"
    /\ result.response = <<"No response generated">>

\* The text segments of a message's content, in order.
TextSegments(content) ==
    LET texts == SelectSeq(content, LAMBDA c : "text" \in DOMAIN c)
    IN  [k \in DOMAIN texts |-> texts[k].text]

\* C21: a run() call whose newest message is the assistant's returns as response
\* the text segments of that message's content, in their order, with a newline
\* between each two; segments that are not text contribute nothing.
AssistantTextJoinedByNewlines ==
    (result.kind = "returned" /\ result.messages # << >>
       /\ result.messages[1].role = "assistant") =>
        LET texts == TextSegments(result.messages[1].content)
            response == result.response
        IN  /\ Len(response) = (IF texts = << >> THEN 0 ELSE 2 * Len(texts) - 1)
            /\ \A k \in DOMAIN texts : response[2 * k - 1] = texts[k]
            /\ \A k \in 1..(Len(texts) - 1) : response[2 * k] = "\n"

\* The assistant's message had two text segments around an image: the response
\* is the two texts with a newline between them.
AssistantTextJoinedWitness ==
    /\ result.kind = "returned"
    /\ result.messages # << >>
    /\ result.messages[1].role = "assistant"
    /\ Len(result.messages[1].content) = 3
    /\ result.response = <<"a", "\n", "b">>

(***************************************************************************)
(* Several run() calls in progress at once on one FoundryAgent, as         *)
(* asyncio interleaves them: a call runs from one await to the next        *)
(* without interruption.  _poll_run_completion is taken as one await of    *)
(* run(): it returns the run when the service has ended it, or raises      *)
(* (timeout, or a remote call of the poller or dispatcher failed); while   *)
(* it polls it touches nothing the calls share.                            *)
(***************************************************************************)
\* thread_id of run()
Threads == {"thread_a", "thread_b"}

\* Faulty variant: the run is recorded in a new AgentMetrics, which replaces the
\* agent's.
ConcurrentRecordInFresh(success, duration, tokens) ==
    /\ metrics' = record_run(AgentMetrics, success, duration, tokens, 0)
    /\ durationSum' = durationSum + duration

\* self.metrics.record_run(...): one synchronous call on the agent's AgentMetrics
ConcurrentRecord(success, duration, tokens) ==
    /\ metrics' = record_run(metrics, success, duration, tokens, 0)
    /\ durationSum' = durationSum + duration

\* The except block of run() in call c.
CallRaises(c) ==
    /\ \E duration \in Durations : ConcurrentRecord(FALSE, duration, 0)
    /\ status' = "failed"
    /\ calls' = [calls EXCEPT ![c].pc = "raised"]

ConcurrentFrame ==
    UNCHANGED <<timeout, runVars, remoteVars, attempt, fetches, unsubmitted, failedCall,
                recordCalls, raisedRuns, executed, seen, consumed, submitted, regVars,
                costVars, lifeVars, clientVars, histVars>>

\* Faulty variant: the agent check lies inside the try block, so the except block
\* records the call and sets the status.
CallNotCreatedRecorded(c) ==
    /\ calls[c].pc = "idle"
    /\ agent = "none"
    /\ \E duration \in Durations : ConcurrentRecord(FALSE, duration, 0)
    /\ status' = "failed"
    /\ calls' = [calls EXCEPT ![c].pc = "raised"]
    /\ UNCHANGED <<agent, remoteRuns>>
    /\ ConcurrentFrame

\* if not self.agent: raise RuntimeError(...), before the try block
CallNotCreated(c) ==
    /\ calls[c].pc = "idle"
    /\ agent = "none"
    /\ calls' = [calls EXCEPT ![c].pc = "raised"]
    /\ UNCHANGED <<agent, status, metrics, durationSum, remoteRuns>>
    /\ ConcurrentFrame

\* run(thread_id) begins: self.status = RUNNING; create_run is awaited.
CallBegin(c) ==
    /\ calls[c].pc = "idle"
    /\ agent # "none"
    /\ \E thread_id \in Threads :
          calls' = [calls EXCEPT ![c] = [pc |-> "create_run", thread |-> thread_id,
                                         run_id |-> 0, attempted |-> TRUE]]
    /\ status' = "running"
    /\ UNCHANGED <<agent, metrics, durationSum, remoteRuns>>
    /\ ConcurrentFrame

\* create_run returns: the service has one more run on the thread; the poller
\* is awaited.
CallCreateRunOk(c) ==
    /\ calls[c].pc = "create_run"
    /\ remoteRuns' = Append(remoteRuns, [thread |-> calls[c].thread,
                                         status |-> "queued", timed_out |-> FALSE])
    /\ calls' = [calls EXCEPT ![c].pc = "polling", ![c].run_id = Len(remoteRuns) + 1]
    /\ UNCHANGED <<agent, status, metrics, durationSum>>
    /\ ConcurrentFrame

CallCreateRunFail(c) ==
    /\ calls[c].pc = "create_run"
    /\ CallRaises(c)
    /\ UNCHANGED <<agent, remoteRuns>>
    /\ ConcurrentFrame

\* _poll_run_completion returns the run: its status is terminal; list_messages
\* is awaited.
CallPollReturns(c) ==
    /\ calls[c].pc = "polling"
    /\ remoteRuns[calls[c].run_id].status \in TerminalStatuses
    /\ calls' = [calls EXCEPT ![c].pc = "list_messages"]
    /\ UNCHANGED <<agent, status, metrics, durationSum, remoteRuns>>
    /\ ConcurrentFrame

\* _poll_run_completion raises TimeoutError: the run has not ended.
CallPollTimesOut(c) ==
    /\ calls[c].pc = "polling"
    /\ remoteRuns[calls[c].run_id].status \notin TerminalStatuses
    /\ remoteRuns' = [remoteRuns EXCEPT ![calls[c].run_id].timed_out = TRUE]
    /\ CallRaises(c)
    /\ UNCHANGED agent
    /\ ConcurrentFrame

\* A get_run or submit_tool_outputs call of the poller raises.
CallPollFails(c) ==
    /\ calls[c].pc = "polling"
    /\ CallRaises(c)
    /\ UNCHANGED <<agent, remoteRuns>>
    /\ ConcurrentFrame

\* list_messages returns; the run is recorded (the run reports no usage, so 0
\* tokens) and run() returns.
CallReturns(c) ==
    /\ calls[c].pc = "list_messages"
    /\ \E duration \in Durations : ConcurrentRecord(TRUE, duration, 0)
    /\ status' = "completed"
    /\ calls' = [calls EXCEPT ![c].pc = "returned"]
    /\ UNCHANGED <<agent, remoteRuns>>
    /\ ConcurrentFrame

CallListMessagesFails(c) ==
    /\ calls[c].pc = "list_messages"
    /\ CallRaises(c)
    /\ UNCHANGED <<agent, remoteRuns>>
    /\ ConcurrentFrame

\* The service ends a run.
ServiceEndsRun(r) ==
    /\ remoteRuns[r].status \notin TerminalStatuses
    /\ \E st \in TerminalStatuses :
          remoteRuns' = [remoteRuns EXCEPT ![r].status = st]
    /\ UNCHANGED <<agent, status, metrics, durationSum, calls>>
    /\ ConcurrentFrame

ConcurrentNext ==
    \/ CreateOk
    \/ \E c \in 1..MaxCalls : CallNotCreated(c)
    \/ \E c \in 1..MaxCalls : CallBegin(c)
    \/ \E c \in 1..MaxCalls : CallCreateRunOk(c)
    \/ \E c \in 1..MaxCalls : CallCreateRunFail(c)
    \/ \E c \in 1..MaxCalls : CallPollReturns(c)
    \/ \E c \in 1..MaxCalls : CallPollTimesOut(c)
    \/ \E c \in 1..MaxCalls : CallPollFails(c)
    \/ \E c \in 1..MaxCalls : CallReturns(c)
    \/ \E c \in 1..MaxCalls : CallListMessagesFails(c)
    \/ \E r \in DOMAIN remoteRuns : ServiceEndsRun(r)

ConcurrentSpec == Init /\ [][ConcurrentNext]_vars

\* The runs of a thread that are outstanding: created, not ended by the service,
\* and not given up by a timeout of their poller.
Outstanding(thread_id) ==
    {r \in DOMAIN remoteRuns :
        /\ remoteRuns[r].thread = thread_id
        /\ remoteRuns[r].status \notin {"completed", "failed", "cancelled"}
        /\ ~remoteRuns[r].timed_out}

\* C22: no thread ever has two outstanding runs.
OneOutstandingRunPerThread ==
    \A thread_id \in Threads : Cardinality(Outstanding(thread_id)) <= 1

\* The calls that passed the agent check and have ended.
EndedAttempts ==
    {c \in DOMAIN calls : calls[c].attempted /\ calls[c].pc \in {"returned", "raised"}}

\* C23: with run() calls interleaved at their awaits no record is lost: total_runs
\* is the number of attempts that have ended, successful_runs the number that
\* returned, successful_runs + failed_runs is total_runs, and the average is the
\* mean of the durations recorded.
ConcurrentRecordsNotLost ==
    /\ metrics.total_runs = Cardinality(EndedAttempts)
    /\ metrics.successful_runs =
          Cardinality({c \in DOMAIN calls : calls[c].pc = "returned"})
    /\ metrics.successful_runs + metrics.failed_runs = metrics.total_runs
    /\ metrics.average_response_time =
          (IF metrics.total_runs = 0 THEN <<0, 1>>
           ELSE Frac(durationSum, metrics.total_runs))

\* Two calls on different threads were in progress together and have both ended,
\* one returned and one raised.
ConcurrentRecordsWitness ==
    /\ calls[1].pc = "returned" /\ calls[2].pc = "raised"
    /\ calls[1].thread # calls[2].thread
    /\ calls[1].run_id = 2
    /\ metrics.total_runs = 2
    /\ durationSum = 2

\* C29: after any sequence of register calls the handler map and the schema map
\* have the same keys, and the schema stored under a key has that key as its name.
RegistryMapsAgree ==
    /\ \A name \in {"lookup_customer", "calculate_azure_cost", "create_support_ticket"} :
          DictHas(registry.tools, name) <=> DictHas(registry.schemas, name)
    /\ DictKeys(registry.tools) = DictKeys(registry.schemas)
    /\ \A i \in DOMAIN registry.schemas :
          registry.schemas[i].value.name = registry.schemas[i].key

\* Two names registered, one of them with listed parameters.
RegistryMapsAgreeWitness ==
    /\ Len(registrations) = 2
    /\ Len(registry.tools) = 2
    /\ \E i \in DOMAIN registrations : ~registrations[i].inferred
    /\ DictKeys(registry.schemas) = <<"lookup_customer", "calculate_azure_cost">>

(***************************************************************************)
(* A ToolRegistry with all its methods: register, execute_tool and the     *)
(* three lookups, called in any order.                                     *)
(***************************************************************************)
LookupNext ==
    \/ Register
    \/ ExecuteTool
    \/ GetTool
    \/ GetSchema
    \/ GetAllSchemas

LookupSpec == Init /\ [][LookupNext]_vars

\* C30: only register writes the registry.  A step of execute_tool, get_tool,
\* get_schema or get_all_schemas leaves the handler map and the schema map as they
\* were, whether it finds the name or not and whether the handler returns or
\* raises; the maps change only in a register call.
OnlyRegisterWritesRegistry ==
    [][/\ (execution' # execution \/ lookup' # lookup) => registry' = registry
       /\ registry' # registry => Len(registrations') = Len(registrations) + 1]_vars

\* On a registry with a tool, an execute_tool call has raised and a get_schema
\* call has found nothing.
OnlyRegisterWritesWitness ==
    /\ registry.tools # << >>
    /\ execution.exc # NoExc
    /\ lookup.op = "get_schema"
    /\ lookup.schema = NoSchema

(***************************************************************************)
(* The poller against a service that may ask for tool outputs again and    *)
(* again.  Every await of the poller (get_run, submit_tool_outputs,        *)
(* asyncio.sleep) comes back, with a value or an exception: weak fairness  *)
(* of the steps that follow each of them.  Nothing is assumed of the       *)
(* service.                                                                *)
(***************************************************************************)
\* After the batches of ServiceRequiresAction the run asks for tool outputs once
\* more, each time it is active again.
ServiceAsksAgain ==
    /\ pc \notin {"idle", "create_run"}
    /\ rstatus = "in_progress"
    /\ rbatchNo >= MaxBatches
    /\ \E kinds \in Batches :
        /\ rbatch' = MakeBatch(rbatchNo + 1, kinds)
        /\ consumed' = [i \in 1..Len(kinds) |-> 0]
        /\ submitted' = [i \in 1..Len(kinds) |-> 0]
    /\ rstatus' = "requires_action"
    /\ rbatchNo' = rbatchNo + 1
    /\ rgot' = FALSE
    /\ seen' = 0
    /\ UNCHANGED <<agentVars, runVars>>
    /\ UNCHANGED <<attempt, executed, fetches, unsubmitted, failedCall, recordCalls,
                   raisedRuns, durationSum>>
    /\ UNCHANGED regVars
    /\ UNCHANGED auxVars

PollNext == Next \/ ServiceAsksAgain

PollSpec ==
    /\ Init
    /\ [][PollNext]_vars
    /\ WF_vars(GetRunOk \/ GetRunFail)
    /\ WF_vars(SubmitOk \/ SubmitFail)
    /\ WF_vars(Sleep)

\* The positions of run() that lie inside _poll_run_completion.
InPoller == pc \in {"get_run", "submit", "sleep"}

\* C25: the poller never decides a run's status.  When _poll_run_completion hands a
\* run back to run(), that run is what the status fetch just made returned, its
\* status is the one the service had at that fetch, and it is completed, failed or
\* cancelled; the poller is left in any other way only by an exception (the
\* timeout or a propagated failure) that ends run().
PollerReturnsFetchedTerminalRun ==
    /\ [](pc = "list_messages" => run.status \in {"completed", "failed", "cancelled"})
    /\ [][/\ (InPoller /\ pc' = "list_messages") =>
                /\ pc = "get_run"
                /\ fetches' = fetches + 1
                /\ run'.status = rstatus
                /\ run'.status \in {"completed", "failed", "cancelled"}
          /\ (InPoller /\ pc' \notin {"get_run", "submit", "sleep", "list_messages"}) =>
                /\ pc' = "idle"
                /\ result'.kind = "raised"
                /\ result'.error \in {"TimeoutError", "ServiceError", "KeyError"}]_vars

\* C26: _poll_run_completion always ends, whatever the service does, as long as
\* each of its awaits comes back: from any position inside the poller the call is
\* left (by a return or an exception), and never are more than
\* timeout / poll_interval status fetches made, also when the run keeps going back
\* and forth between active and waiting for tool outputs.
PollerTerminates ==
    /\ [](fetches <= timeout \div poll_interval)
    /\ (InPoller ~> ~InPoller)

\* The poller has timed out on a run that went back to waiting for tool outputs
\* after every submission, more often than ServiceRequiresAction allows.
PollerTerminatesWitness ==
    /\ pc = "idle"
    /\ result.error = "TimeoutError"
    /\ rbatchNo > MaxBatches + 1
    /\ rstatus = "requires_action"
    /\ fetches = timeout \div poll_interval

\* C27: the remote calls of one run() come in order.  create_run is the first call
\* and is made once; get_run is called only after create_run returned or after a
\* sleep; submit_tool_outputs is called only straight after a get_run that
\* returned requires_action; list_messages is called only straight after a
\* get_run that returned a terminal status, and after it run() makes no further
\* call; a run() that got past create_run has fetched at least once when it ends,
\* and one that ends by the timeout or a failure before list_messages has never
\* listed the messages.
RemoteCallsInOrder ==
    [][/\ pc' # pc =>
            /\ pc' = "create_run" => pc = "idle"
            /\ pc = "create_run" => pc' \in {"get_run", "idle"}
            /\ pc' = "get_run" => pc \in {"create_run", "sleep"}
            /\ pc' = "submit" => (pc = "get_run" /\ run'.status = "requires_action")
            /\ pc = "submit" => pc' \in {"sleep", "idle"}
            /\ pc' = "list_messages" =>
                  (pc = "get_run" /\ run'.status \in {"completed", "failed", "cancelled"})
            /\ pc = "list_messages" => pc' = "idle"
            /\ (pc' = "idle" /\ pc # "create_run") => fetches' >= 1
       /\ (pc # "idle" /\ pc' = "idle") =>
            /\ result'.kind = "returned" => pc = "list_messages"
            /\ pc # "list_messages" =>
                  /\ result'.kind = "raised"
                  /\ result'.messages = << >>
                  /\ result'.response = << >>
                  /\ failedCall' # "list_messages"]_vars

\* run() has returned a response after a submission and a terminal fetch.
RemoteCallsInOrderWitness ==
    /\ pc = "idle"
    /\ result.kind = "returned"
    /\ result.messages # << >>
    /\ rbatchNo = 1
    /\ rgot = FALSE
    /\ fetches >= 2
    /\ executed >= 1

\* C28: a run counts as successful only when the poller returned it completed.
\* When run() ends after the poller handed back a run, a completed run adds one
\* to successful_runs and leaves the agent COMPLETED, while a failed or cancelled
\* run adds one to failed_runs, none to successful_runs, and does not leave the
\* agent COMPLETED.
SuccessOnlyWhenCompleted ==
    [][(pc = "list_messages" /\ pc' = "idle" /\ result'.kind = "returned") =>
          IF run.status = "completed"
          THEN /\ metrics'.successful_runs = metrics.successful_runs + 1
               /\ status' = "completed"
          ELSE /\ metrics'.failed_runs = metrics.failed_runs + 1
               /\ metrics'.successful_runs = metrics.successful_runs
               /\ status' # "completed"]_vars

\* The poller has handed back a cancelled run after more than one fetch.
PollerReturnsFetchedWitness ==
    /\ pc = "list_messages"
    /\ run.status = "cancelled"
    /\ rstatus = "cancelled"
    /\ fetches > 1

(***************************************************************************)
(* calculate_azure_cost on its own, called with any arguments.             *)
(***************************************************************************)
ResourceTypes == {"vm", "storage", "sql"}

Tiers == {"basic", "standard", "premium", "reserved"}

HoursPerMonth == {0, 1, 730}

CalculateCost ==
    /\ \E resource_type \in ResourceTypes, tier \in Tiers,
          hours_per_month \in HoursPerMonth :
          costCall' =
              [args |-> <<resource_type, tier, hours_per_month>>,
               result |-> calculate_azure_cost(resource_type, tier, hours_per_month)]
    /\ costPrev' = costCall
    /\ UNCHANGED <<agentVars, runVars, remoteVars, obsVars, regVars, concVars>>
    /\ UNCHANGED <<lifeVars, clientVars, histVars>>

CostNext == CalculateCost

CostSpec == Init /\ [][CostNext]_vars

\* C24: calculate_azure_cost is a function of its arguments alone.  Two calls with
\* equal arguments return equal results; the hourly rate is the one of the table
\* for (resource_type, tier), 0.10 when the table has none; the monthly cost is
\* rate * hours_per_month; vm, standard, 730 gives rate 0.15 and cost 109.50; and a
\* call changes nothing of the agent or the registry.
CostIsPureFunction ==
    /\ [](LET r == costCall.result
              resource_type == costCall.args[1]
              tier == costCall.args[2]
          IN  /\ costCall.args = costPrev.args => costCall.result = costPrev.result
              /\ costCall # NoCostCall =>
                    /\ r.estimated_monthly_cost = r.hourly_rate * costCall.args[3]
                    /\ r.hourly_rate \in {1, 2, 5, 10, 15, 50}
                    /\ (resource_type \notin {"vm", "storage"}
                          \/ tier \notin {"basic", "standard", "premium"})
                         => r.hourly_rate = 10
                    /\ costCall.args = <<"vm", "standard", 730>> =>
                          (r.hourly_rate = 15 /\ r.estimated_monthly_cost = 10950))
    /\ [][costCall' # costCall => UNCHANGED <<agentVars, regVars>>]_vars

\* Two calls in a row for vm, standard, 730 hours: both give 109.50.
CostIsPureWitness ==
    /\ costCall.args = <<"vm", "standard", 730>>
    /\ costPrev.args = <<"vm", "standard", 730>>
    /\ costCall.result.hourly_rate = 15
    /\ costPrev.result.estimated_monthly_cost = 10950

(***************************************************************************)
(* agent.py: the lifecycle of a FoundryAgent.  create, create_thread,      *)
(* add_message, run and cleanup are called one after another, in any       *)
(* order.  get_client is taken as it answers: it returns the client or     *)
(* raises, which the caller handles like a failure of its remote call.     *)
(***************************************************************************)
\* Most create, create_thread, add_message and cleanup calls made.
MaxOps == 4

\* The thread ids the service hands out, in order.
ThreadIds == <<"thread_a", "thread_b">>

Roles == {"user", "assistant"}

\* No run() call is in progress.
Quiet == \A c \in DOMAIN calls : calls[c].pc \in {"idle", "returned", "raised"}

\* The next run() call to be made is call c.
NextCall(c) == Quiet /\ \A d \in 1..(c - 1) : calls[d].pc # "idle"

LifeOp(op, remote_ok, raised, thread_id) ==
    [n |-> lifeOp.n + 1, op |-> op, remote_ok |-> remote_ok, raised |-> raised,
     thread |-> thread_id]

LifeFrame ==
    UNCHANGED <<timeout, runVars, remoteVars, obsVars, regVars, concVars, costVars,
                clientVars, histVars>>

\* create(): create_agent returns; self.agent is the new agent, status READY.
LifeCreateOk ==
    /\ Quiet
    /\ lifeOp.n < MaxOps
    /\ agent' = "created"
    /\ status' = "ready"
    /\ remoteAgent' = "live"
    /\ lifeOp' = LifeOp("create", TRUE, FALSE, "none")
    /\ UNCHANGED <<metrics, threads, remoteThreads>>
    /\ LifeFrame

\* create(): get_client or create_agent raises; status FAILED, the error is raised.
LifeCreateFail ==
    /\ Quiet
    /\ lifeOp.n < MaxOps
    /\ status' = "failed"
    /\ lifeOp' = LifeOp("create", FALSE, TRUE, "none")
    /\ UNCHANGED <<agent, metrics, threads, remoteAgent, remoteThreads>>
    /\ LifeFrame

\* create_thread(): the service returns a new thread, which is tracked.
CreateThreadOk ==
    /\ Quiet
    /\ lifeOp.n < MaxOps
    /\ Len(remoteThreads) < Len(ThreadIds)
    /\ LET id == ThreadIds[Len(remoteThreads) + 1]
       IN  /\ remoteThreads' = DictSet(remoteThreads, id, << >>)
           /\ threads' = DictSet(threads, id, << >>)
           /\ lifeOp' = LifeOp("create_thread", TRUE, FALSE, id)
    /\ UNCHANGED <<agent, status, metrics, remoteAgent>>
    /\ LifeFrame

CreateThreadFail ==
    /\ Quiet
    /\ lifeOp.n < MaxOps
    /\ lifeOp' = LifeOp("create_thread", FALSE, TRUE, "none")
    /\ UNCHANGED <<agent, status, metrics, threads, remoteAgent, remoteThreads>>
    /\ LifeFrame

\* Faulty variant: the threads are cleared and the status is reset in a finally
\* block, also when delete_agent raised.
cleanup_finally(ok, th, st) ==
    [threads |-> << >>, status |-> "initializing", raised |-> FALSE]

\* What cleanup() leaves: ok when the try block ran to its end, else the except
\* block caught the error and logged it.
cleanup(ok, th, st) ==
    IF ok
    THEN [threads |-> << >>, status |-> "initializing", raised |-> FALSE]
    ELSE [threads |-> th, status |-> st, raised |-> FALSE]

\* cleanup(): delete_agent is not called (no agent) or returns; the threads are
\* cleared and the status is INITIALIZING.  self.agent is not written.
CleanupOk ==
    /\ Quiet
    /\ lifeOp.n < MaxOps
    /\ agent # "none" => remoteAgent = "live"
    /\ remoteAgent' = IF agent # "none" THEN "deleted" ELSE remoteAgent
    /\ LET r == cleanup(TRUE, threads, status)
       IN  /\ threads' = r.threads
           /\ status' = r.status
           /\ lifeOp' = LifeOp("cleanup", TRUE, r.raised, "none")
    /\ UNCHANGED <<agent, metrics, remoteThreads>>
    /\ LifeFrame

\* cleanup(): get_client or delete_agent raises; the except block logs the error.
CleanupFail ==
    /\ Quiet
    /\ lifeOp.n < MaxOps
    /\ agent # "none"
    /\ LET r == cleanup(FALSE, threads, status)
       IN  /\ threads' = r.threads
           /\ status' = r.status
           /\ lifeOp' = LifeOp("cleanup", FALSE, r.raised, "none")
    /\ UNCHANGED <<agent, metrics, remoteAgent, remoteThreads>>
    /\ LifeFrame

LifecycleNext ==
    \/ LifeCreateOk
    \/ LifeCreateFail
    \/ CreateThreadOk
    \/ CreateThreadFail
    \/ CleanupOk
    \/ CleanupFail
    \/ \E c \in 1..MaxCalls : NextCall(c) /\ CallNotCreated(c)
    \/ \E c \in 1..MaxCalls : NextCall(c) /\ CallBegin(c)
    \/ \E c \in 1..MaxCalls : CallCreateRunOk(c)
    \/ \E c \in 1..MaxCalls : CallCreateRunFail(c)
    \/ \E c \in 1..MaxCalls : CallPollReturns(c)
    \/ \E c \in 1..MaxCalls : CallPollTimesOut(c)
    \/ \E c \in 1..MaxCalls : CallPollFails(c)
    \/ \E c \in 1..MaxCalls : CallReturns(c)
    \/ \E c \in 1..MaxCalls : CallListMessagesFails(c)
    \/ \E r \in DOMAIN remoteRuns : ServiceEndsRun(r)

LifecycleSpec == Init /\ [][LifecycleNext]_vars

\* C31: a run() call on an agent that has not been created raises the 'not
\* created' error at once: no remote call is made (no run exists at the service
\* afterwards that did not before) and the agent's status, its metrics and its
\* thread table are as they were.
RunBeforeCreateRejected ==
    [][\A c \in DOMAIN calls :
          (calls[c].pc = "idle" /\ calls'[c].pc # "idle" /\ agent = "none") =>
              /\ calls'[c].pc = "raised"
              /\ ~calls'[c].attempted
              /\ UNCHANGED <<agent, status, metrics, threads>>
              /\ UNCHANGED <<remoteRuns, remoteThreads, remoteAgent>>]_vars

\* create() has failed, a thread is tracked, and a run() call was rejected.
RunBeforeCreateWitness ==
    /\ agent = "none"
    /\ status = "failed"
    /\ threads # << >>
    /\ \E c \in DOMAIN calls : calls[c].pc = "raised" /\ ~calls[c].attempted

\* C32: after a cleanup() that deleted the remote agent, and until a create() has
\* succeeded again, every run() call is rejected with the 'not created' error
\* before anything else happens, so no create_run is sent for a deleted agent.
NoRunOnDeletedAgent ==
    [][\A c \in DOMAIN calls :
          (calls[c].pc = "idle" /\ calls'[c].pc # "idle" /\ remoteAgent = "deleted") =>
              /\ calls'[c].pc = "raised"
              /\ ~calls'[c].attempted
              /\ UNCHANGED <<status, metrics>>]_vars

\* C33: cleanup() never raises.  When delete_agent (or get_client) fails the
\* thread table and the status stay as they were; when it succeeds, or there is no
\* agent to delete, the thread table is empty and the status is INITIALIZING; the
\* metrics are untouched either way.
CleanupSwallowsErrors ==
    [][(lifeOp'.n = lifeOp.n + 1 /\ lifeOp'.op = "cleanup") =>
          /\ ~lifeOp'.raised
          /\ metrics' = metrics
          /\ lifeOp'.remote_ok => (threads' = << >> /\ status' = "initializing")
          /\ ~lifeOp'.remote_ok => UNCHANGED <<threads, status, remoteAgent>>]_vars

\* After a run, a cleanup() whose delete_agent failed: the thread is still
\* tracked and the run is still in the metrics.
CleanupSwallowsWitness ==
    /\ lifeOp.op = "cleanup"
    /\ ~lifeOp.remote_ok
    /\ threads # << >>
    /\ status \in {"completed", "failed"}
    /\ metrics.total_runs >= 1
    /\ remoteAgent = "live"

\* The run() calls that have started and have neither returned nor raised.
OutstandingCalls ==
    {c \in DOMAIN calls : calls[c].pc \in {"create_run", "polling", "list_messages"}}

\* C34: the agent's status is RUNNING whenever a run() call of the agent is
\* outstanding, also when calls on different threads overlap; it is COMPLETED or
\* FAILED only when none is.  (Stated for calls made on different threads.)
RunningWhileOutstanding ==
    (\A c, d \in DOMAIN calls :
        (c # d /\ calls[c].attempted /\ calls[d].attempted) =>
            calls[c].thread # calls[d].thread) =>
        /\ OutstandingCalls # {} => status = "running"
        /\ status \in {"completed", "failed"} => OutstandingCalls = {}

(***************************************************************************)
(* client.py: a FoundryClientManager.  get_client and close are            *)
(* synchronous (tenacity sleeps between attempts with time.sleep), so each *)
(* call is one step.  What the Azure SDK does in an attempt is an input:   *)
(* whether the credential's constructor, its get_token and                 *)
(* from_connection_string return (TRUE) or raise (FALSE).                  *)
(***************************************************************************)
\* Most get_client and close calls made on the manager.
MaxClientOps == 6

\* The attempts whose outcome is drawn; one more than the retry allows.
Attempts == 1..4

AttemptOutcomes == [construct : BOOLEAN, token : BOOLEAN, connect : BOOLEAN]

\* _get_credential(): the cached credential, or a new one that is cached when
\* constructed and then tested.  cred is self._credential, n the credentials
\* constructed so far.
get_credential(cred, n, o) ==
    IF cred.id # 0
    THEN [raised |-> FALSE, returned |-> cred, cached |-> cred, n |-> n]
    ELSE IF ~o.construct
    THEN [raised |-> TRUE, returned |-> NoCredential, cached |-> NoCredential, n |-> n]
    ELSE LET new == [id |-> n + 1, tested |-> o.token]
         IN  [raised |-> ~o.token,
              returned |-> IF o.token THEN new ELSE NoCredential,
              cached |-> new, n |-> n + 1]

\* Faulty variant: stop_after_attempt(4)
stop_after_four(attempt_number) == attempt_number >= 4

\* stop=stop_after_attempt(3)
stop_after_attempt(attempt_number) == attempt_number >= 3

\* _create_client() under @retry, from attempt k on: the state of the manager's
\* credential cache, the client made (0 when every attempt raised), the
\* credential it was made with, and the attempts made.
RECURSIVE create_client(_, _, _, _)
create_client(cred, n, outcomes, k) ==
    LET g == get_credential(cred, n, outcomes[k])
        ok == ~g.raised /\ outcomes[k].connect
    IN  IF ok
        THEN [raised |-> FALSE, made |-> TRUE, used |-> g.returned,
              credential |-> g.cached, n |-> g.n, attempts |-> k, failed |-> k - 1]
        ELSE IF stop_after_attempt(k)
        THEN [raised |-> TRUE, made |-> FALSE, used |-> NoCredential,
              credential |-> g.cached, n |-> g.n, attempts |-> k, failed |-> k]
        ELSE create_client(g.cached, g.n, outcomes, k + 1)

ClientFrame ==
    UNCHANGED <<agentVars, runVars, remoteVars, obsVars, regVars, concVars, costVars,
                lifeVars, histVars>>

\* get_client(): the cached client, or the one _create_client returns.
GetClient ==
    /\ clientOp.n < MaxClientOps
    /\ IF client # 0
       THEN /\ clientOp' = [n |-> clientOp.n + 1, op |-> "get_client", raised |-> FALSE,
                            attempts |-> 0, failed |-> 0, returned |-> client,
                            used |-> NoCredential]
            /\ UNCHANGED <<client, credential, made>>
       ELSE \E outcomes \in [Attempts -> AttemptOutcomes] :
              LET r == create_client(credential, made.credentials, outcomes, 1)
                  new == made.clients + 1
              IN  /\ client' = IF r.made THEN new ELSE 0
                  /\ credential' = r.credential
                  /\ made' = [clients |-> IF r.made THEN new ELSE made.clients,
                              credentials |-> r.n]
                  /\ clientOp' = [n |-> clientOp.n + 1, op |-> "get_client",
                                  raised |-> r.raised, attempts |-> r.attempts,
                                  failed |-> r.failed,
                                  returned |-> IF r.made THEN new ELSE 0,
                                  used |-> r.used]
    /\ ClientFrame

\* close(): if self._client: self._client = None; self._credential = None
Close ==
    /\ clientOp.n < MaxClientOps
    /\ IF client # 0
       THEN /\ client' = 0
            /\ credential' = NoCredential
       ELSE UNCHANGED <<client, credential>>
    /\ clientOp' = [n |-> clientOp.n + 1, op |-> "close", raised |-> FALSE,
                    attempts |-> 0, failed |-> 0, returned |-> 0,
                    used |-> NoCredential]
    /\ UNCHANGED made
    /\ ClientFrame

ClientNext ==
    \/ GetClient
    \/ Close

ClientSpec == Init /\ [][ClientNext]_vars

\* A get_client call is made in this step.
GetClientStep == clientOp'.n = clientOp.n + 1 /\ clientOp'.op = "get_client"

\* A close call is made in this step.
CloseStep == clientOp'.n = clientOp.n + 1 /\ clientOp'.op = "close"

\* C35: the manager holds a lazy singleton.  A get_client that finds a client
\* returns that client and makes none; a get_client that returns makes at most one
\* client and caches the one it returns; a close leaves neither a cached client
\* nor a cached credential; and the first get_client after a close that returns
\* has made a new client with a credential constructed in that call.
ClientIsLazySingleton ==
    [][/\ (GetClientStep /\ client # 0) =>
             (clientOp'.returned = client /\ UNCHANGED <<client, made>>)
       /\ (GetClientStep /\ ~clientOp'.raised) =>
             (clientOp'.returned = client' /\ made'.clients <= made.clients + 1)
       /\ CloseStep => (client' = 0 /\ credential' = NoCredential)
       /\ (GetClientStep /\ clientOp.op = "close" /\ ~clientOp'.raised) =>
             /\ clientOp'.returned = made.clients + 1
             /\ clientOp'.used.id > made.credentials]_vars

\* C36: client creation is retried a bounded number of times.  A get_client on a
\* manager without a client makes at least one and at most 3 attempts; when it
\* returns, the attempt that succeeded is the last one made and one client was
\* made; when it raises, all 3 attempts failed, no client was made and none is
\* cached, so that the next get_client attempts again.
ClientCreationRetriedThrice ==
    [][(GetClientStep /\ client = 0) =>
          /\ clientOp'.attempts \in 1..3
          /\ ~clientOp'.raised =>
                /\ clientOp'.attempts = clientOp'.failed + 1
                /\ made'.clients = made.clients + 1
                /\ client' = made'.clients
          /\ clientOp'.raised =>
                /\ clientOp'.attempts = 3
                /\ clientOp'.failed = 3
                /\ made'.clients = made.clients
                /\ client' = 0]_vars

\* A get_client raised after 3 failed attempts, and the next one made a client
\* on its second attempt.
ClientCreationRetriedWitness ==
    /\ clientOp.n = 2
    /\ clientOp.op = "get_client"
    /\ ~clientOp.raised
    /\ clientOp.attempts = 2
    /\ clientOp.failed = 1
    /\ client = 1
    /\ made.clients = 1

\* C37: a credential is cached, and handed to from_connection_string, only after
\* its get_token test succeeded.
CredentialTestedBeforeUse ==
    /\ credential.id # 0 => credential.tested
    /\ clientOp.used.id # 0 => clientOp.used.tested

(***************************************************************************)
(* agent.py: a ConversationContext.  A message is its role and its         *)
(* content; the content numbers the messages in the order they were added. *)
(***************************************************************************)
\* Longest history add_message builds.
MaxMessages == 4

\* Most truncate_history calls made.
MaxTruncations == 2

MessageRoles == {"system", "user", "assistant"}

\* The Python slice seq[-k:] for k >= 0: the last k elements, all of seq when it
\* has fewer, and (as -0 is 0) all of seq when k = 0.
NegativeSlice(seq, k) ==
    IF k = 0 \/ k >= Len(seq) THEN seq ELSE SubSeq(seq, Len(seq) - k + 1, Len(seq))

\* ConversationContext.truncate_history(max_messages): self.messages after it
truncate_history(msgs, max_messages) ==
    IF Len(msgs) > max_messages
    THEN IF msgs[1].role = "system"
         THEN << msgs[1] >> \o NegativeSlice(msgs, max_messages - 1)
         ELSE NegativeSlice(msgs, max_messages)
    ELSE msgs

HistoryFrame ==
    UNCHANGED <<agentVars, runVars, remoteVars, obsVars, regVars, concVars, costVars,
                lifeVars, clientVars>>

\* ConversationContext.add_message(role, content)
ContextAddMessage ==
    /\ Len(messages) < MaxMessages
    /\ \E role \in MessageRoles :
          messages' = Append(messages,
                             [role |-> role,
                              content |-> IF messages = << >> THEN 1
                                          ELSE messages[Len(messages)].content + 1])
    /\ UNCHANGED truncation
    /\ HistoryFrame

\* ConversationContext.truncate_history(max_messages), max_messages >= 1 as
\* FoundryConfig.max_conversation_history requires.
TruncateHistory ==
    /\ truncation.n < MaxTruncations
    /\ \E max_messages \in 1..MaxMessages :
        /\ messages' = truncate_history(messages, max_messages)
        /\ truncation' = [n |-> truncation.n + 1, max_messages |-> max_messages,
                          before |-> messages,
                          after |-> truncate_history(messages, max_messages)]
    /\ HistoryFrame

HistoryNext ==
    \/ ContextAddMessage
    \/ TruncateHistory

HistorySpec == Init /\ [][HistoryNext]_vars

\* The last k elements of seq, k <= Len(seq).
Last(seq, k) == SubSeq(seq, Len(seq) - k + 1, Len(seq))

\* C38: after truncate_history(max_messages) with max_messages >= 1 the
\* conversation holds at most max_messages messages; a history of at most
\* max_messages messages is unchanged; a longer one keeps its most recent
\* messages in their order, after its first message when that has role system.
TruncateKeepsMostRecent ==
    truncation.n > 0 =>
        LET before == truncation.before
            after == truncation.after
            max_messages == truncation.max_messages
        IN  /\ Len(after) <= max_messages
            /\ Len(before) <= max_messages => after = before
            /\ Len(before) > max_messages =>
                  IF before[1].role = "system"
                  THEN after = << before[1] >> \o Last(before, max_messages - 1)
                  ELSE after = Last(before, max_messages)

(***************************************************************************)
(* agent.py: threads and their messages.  create_thread, add_message and   *)
(* cleanup (with the create it needs) called one after another.            *)
(***************************************************************************)
Contents == {"hello"}

\* Faulty variant: the local context is updated before create_message is awaited,
\* so the message stays in it when the call fails.
add_message_local_first(ok, th, thread_id, role, content) ==
    IF DictHas(th, thread_id)
    THEN DictSet(th, thread_id,
                 Append(DictGet(th, thread_id, << >>),
                        [role |-> role, content |-> content]))
    ELSE th

\* add_message(thread_id, content, role): self.threads after it; ok when
\* get_client and create_message returned.
add_message(ok, th, thread_id, role, content) ==
    IF ok /\ DictHas(th, thread_id)
    THEN DictSet(th, thread_id,
                 Append(DictGet(th, thread_id, << >>),
                        [role |-> role, content |-> content]))
    ELSE th

\* create_message returns: the thread at the service has the message.
AddMessageOk ==
    /\ Quiet
    /\ lifeOp.n < MaxOps
    /\ \E thread_id \in Threads, role \in Roles, content \in Contents :
        /\ DictHas(remoteThreads, thread_id)
        /\ remoteThreads' =
              DictSet(remoteThreads, thread_id,
                      Append(DictGet(remoteThreads, thread_id, << >>),
                             [role |-> role, content |-> content]))
        /\ threads' = add_message(TRUE, threads, thread_id, role, content)
        /\ lifeOp' = LifeOp("add_message", TRUE, FALSE, thread_id)
    /\ UNCHANGED <<agent, status, metrics, remoteAgent>>
    /\ LifeFrame

\* get_client or create_message raises: the error is logged and raised.
AddMessageFail ==
    /\ Quiet
    /\ lifeOp.n < MaxOps
    /\ \E thread_id \in Threads, role \in Roles, content \in Contents :
        /\ threads' = add_message(FALSE, threads, thread_id, role, content)
        /\ lifeOp' = LifeOp("add_message", FALSE, TRUE, thread_id)
    /\ UNCHANGED <<agent, status, metrics, remoteAgent, remoteThreads>>
    /\ LifeFrame

ThreadNext ==
    \/ LifeCreateOk
    \/ CreateThreadOk
    \/ CreateThreadFail
    \/ AddMessageOk
    \/ AddMessageFail
    \/ CleanupOk
    \/ CleanupFail

ThreadSpec == Init /\ [][ThreadNext]_vars

\* C39: add_message keeps the local context in step with the remote thread.  The
\* messages of every tracked thread are those the service has for it; an
\* add_message whose remote call failed raises and leaves the thread table as it
\* was; one whose remote call succeeded appends the message to the addressed
\* thread's context (when that thread is tracked) and to no other.
AddMessageFollowsRemote ==
    /\ [](\A i \in DOMAIN threads :
             threads[i].value = DictGet(remoteThreads, threads[i].key, << >>))
    /\ [][(lifeOp'.n = lifeOp.n + 1 /\ lifeOp'.op = "add_message") =>
             LET thread_id == lifeOp'.thread
             IN  /\ lifeOp'.raised <=> ~lifeOp'.remote_ok
                 /\ ~lifeOp'.remote_ok => UNCHANGED <<threads, remoteThreads>>
                 /\ DictKeys(threads') = DictKeys(threads)
                 /\ \A i \in DOMAIN threads :
                       IF threads[i].key = thread_id /\ lifeOp'.remote_ok
                       THEN /\ Len(threads'[i].value) = Len(threads[i].value) + 1
                            /\ SubSeq(threads'[i].value, 1, Len(threads[i].value))
                                  = threads[i].value
                            /\ Len(DictGet(remoteThreads', thread_id, << >>))
                                  = Len(DictGet(remoteThreads, thread_id, << >>)) + 1
                       ELSE threads'[i] = threads[i]]_vars

\* Two threads are tracked; a message was added to thread_b, and then an
\* add_message to it failed.
AddMessageFollowsWitness ==
    /\ Len(threads) = 2
    /\ lifeOp.op = "add_message"
    /\ lifeOp.raised
    /\ lifeOp.thread = "thread_b"
    /\ Len(DictGet(threads, "thread_b", << >>)) = 1
    /\ DictGet(threads, "thread_a", << >>) = << >>

====
